---------------------------- MODULE Spec2Model ----------------------------
(***************************************************************************)
(* A model of the request execution core of pyjcall:                       *)
(*   - RateLimiter             (src/src/pyjcall/utils/rate_limiter.py)     *)
(*   - RetryHandler             (src/src/pyjcall/utils/retry.py)           *)
(*   - JustCallClient._make_request / _paginate (src/src/pyjcall/client.py)*)
(*                                                                         *)
(* Time is counted in ticks of MIN_WAIT_TIME (0.1 s).  Clock readings are  *)
(* kept relative to the present: a stored timestamp is represented by its  *)
(* age, so the state space stays finite while time advances.  Fractional   *)
(* token counts and rates are kept as integers in units of 1/Scale token   *)
(* (rates: units per tick).                                                *)
(***************************************************************************)
EXTENDS Integers, Sequences, FiniteSets, TLC

VARIABLES
    rate_limiter,   \* the RateLimiter instance owned by the client
    lock,           \* RateLimiter._lock: the thread holding it, or Free
    acq,            \* per thread: position and locals of its acquire() call
    sleep_left,     \* per thread: ticks left of the time.sleep it is in
    retry_handler,  \* the RetryHandler instance owned by the client
    rate_limit_info,\* JustCallClient.rate_limit_info
    session,        \* JustCallClient.session and the requests.Session objects made
    req,            \* per thread: position and locals of its _make_request call
    pag,            \* the generator frame of one _paginate iteration and its consumer
    server,         \* the pages the paginated endpoint holds
    sent,           \* the arguments of one request on their way to session.request
    other           \* a second JustCallClient of the process: its objects

limiterVars == << rate_limiter, lock, acq, sleep_left >>
pagVars == << pag, server >>
clientVars == << retry_handler, rate_limit_info, session, req, pagVars, sent, other >>
vars == << rate_limiter, lock, acq, sleep_left,
           retry_handler, rate_limit_info, session, req, pag, server, sent, other >>

-----------------------------------------------------------------------------
(* Bounds of the model *)

\* acquire() calls a limiter serves before the model stops issuing new ones
MaxRequests == 2
\* ticks that pass, at most, between two events while no thread is asleep
MaxElapsed == 4
\* largest max_retries a RetryHandler is configured with
MaxRetries == 2
\* _make_request calls a caller issues
MaxCalls == 1
\* pages one _paginate iteration asks for
MaxFetches == 3
\* requests.Session objects a client creates
MaxSessions == 3

-----------------------------------------------------------------------------
(* Units and small helpers *)

\* one tick is MIN_WAIT_TIME = 0.1 s
TicksPerSecond == 10
\* fractional tokens and rates are integers in units of 1/Scale token
Scale == 6000

Threads == {1, 2}
None == "None"
Free == 0
Absent == -1
NotSleeping == -1
Endpoints == {"/a"}
\* the keys of request_timestamps; a key not yet in the dict is an empty deque
Keys == Endpoints \cup {"global"}

Min(a, b) == IF a <= b THEN a ELSE b
Max(a, b) == IF a >= b THEN a ELSE b
CeilDiv(a, b) == (a + b - 1) \div b

-----------------------------------------------------------------------------
(* rate_limiter.py: constants *)

MIN_WAIT_TIME == 1
\* DEFAULT_PRESSURE_RELIEF_WAIT = 0.5 s
DEFAULT_PRESSURE_RELIEF_WAIT == 5
\* DEFAULT_JITTER_FACTOR = 0.1: jitter is at most a tenth of the value
JitterDivisor == 10
\* DEFAULT_BUFFER_FACTOR = 1.5, as the fraction BufferNum / BufferDen
BufferNum == 3
BufferDen == 2

TOKEN_BUCKET == "token_bucket"
FIXED_WINDOW == "fixed_window"
SLIDING_WINDOW == "sliding_window"
Strategies == {TOKEN_BUCKET, FIXED_WINDOW, SLIDING_WINDOW}

\* RateLimiter._add_jitter: random.uniform(0, value * jitter_factor), in whole ticks
AddJitter(value) == 0..(value \div JitterDivisor)

\* RateLimiter.__init__.  Four fields record the limiter's history and are read
\* by no admission decision: initial_tokens (the tokens at construction), refilled
\* (tokens were added or reset since), unwaited (token-bucket calls that returned
\* without having slept, counted until the first refill), swallowed (calls
\* whose exception acquire swallowed) and, where a burst is timed, elapsed (the
\* ticks since construction).
NewRateLimiter(rate, max_tokens, strategy, window_size, endpoint_limits, adaptive) ==
    [ rate |-> rate,
      max_tokens |-> max_tokens,
      strategy |-> strategy,
      window_size |-> window_size,
      endpoint_limits |-> endpoint_limits,
      adaptive |-> adaptive,
      tokens |-> max_tokens * Scale,
      since_update |-> 0,
      request_timestamps |-> [k \in Keys |-> << >>],
      request_count |-> 0,
      endpoint_counts |-> [e \in Endpoints |-> 0],
      burst_limit |-> max_tokens,
      burst_remaining |-> max_tokens,
      burst_reset |-> 0,
      global_limit |-> (rate * window_size) \div Scale,
      global_remaining |-> (rate * window_size) \div Scale,
      global_reset |-> 0,
      consecutive_rate_limit_errors |-> 0,
      backoff_multiplier |-> 10,
      initial_tokens |-> max_tokens,
      refilled |-> FALSE,
      unwaited |-> 0,
      swallowed |-> 0,
      timed |-> FALSE,
      elapsed |-> 0 ]

\* time.monotonic() moves on by d ticks: every stored reading grows older.
\* last_update is read by _acquire_token_bucket only, so its age is kept under
\* that strategy only; a timestamp that has left the window keeps age window_size.
Elapse(rl, d) ==
    [ rl EXCEPT
        !.since_update = IF rl.strategy = TOKEN_BUCKET THEN @ + d ELSE @,
        !.elapsed = IF rl.timed THEN @ + d ELSE @,
        !.request_timestamps =
            [ k \in DOMAIN @ |->
                [ i \in 1..Len(@[k]) |-> Min(@[k][i] + d, rl.window_size) ] ] ]

\* endpoint_limits.get(endpoint, self.rate) if endpoint else self.rate
RateFor(rl, endpoint) ==
    IF endpoint # None /\ endpoint \in DOMAIN rl.endpoint_limits
    THEN rl.endpoint_limits[endpoint]
    ELSE rl.rate

\* key = endpoint or "global"
KeyOf(endpoint) == IF endpoint # None THEN endpoint ELSE "global"

\* while deque and deque[0] <= window_start: deque.popleft()
RECURSIVE Evict(_, _)
Evict(stamps, window_size) ==
    IF stamps # << >> /\ Head(stamps) >= window_size
    THEN Evict(Tail(stamps), window_size)
    ELSE stamps

\* if key not in request_timestamps: request_timestamps[key] = deque(); then evict
CleanWindow(rl, key) ==
    [ rl EXCEPT !.request_timestamps[key] = Evict(@, rl.window_size) ]

\* max_requests = int(rate * self.window_size)
MaxRequestsFor(rate, window_size) == (rate * window_size) \div Scale

\* request_timestamps[key].append(now)
RecordRequest(rl, key) ==
    [ rl EXCEPT !.request_timestamps[key] = Append(@, 0) ]

\* tokens = min(max_tokens, tokens + time_passed * rate); last_update = now
Refill(rl, rate) ==
    [ rl EXCEPT !.tokens = Min(rl.max_tokens * Scale, @ + rl.since_update * rate),
                !.since_update = 0,
                !.refilled = @ \/ (rl.since_update * rate > 0) ]

\* a consume step that takes no token
ConsumeNothing(rl) ==
    [ rl EXCEPT !.since_update = 0 ]

\* tokens -= 1; last_update = now
Consume(rl) ==
    [ rl EXCEPT !.tokens = @ - Scale, !.since_update = 0 ]

\* the call returns to a caller that has or has not slept in it
Returned(rl, slept) ==
    [ rl EXCEPT !.unwaited = IF slept \/ rl.refilled \/ rl.strategy # TOKEN_BUCKET
                             THEN @ ELSE @ + 1 ]

\* acquire, after the strategy returned: request_count and endpoint_counts
Tracked(rl, endpoint) ==
    [ rl EXCEPT !.request_count = @ + 1,
                !.endpoint_counts =
                    IF endpoint # None THEN [ @ EXCEPT ![endpoint] = @ + 1 ] ELSE @ ]

\* acquire, except branch: the error is logged, only endpoint_counts moves
Swallowed(rl, endpoint) ==
    [ rl EXCEPT !.endpoint_counts =
                    IF endpoint # None THEN [ @ EXCEPT ![endpoint] = @ + 1 ] ELSE @,
                !.swallowed = @ + 1 ]

-----------------------------------------------------------------------------
(* RateLimiter.update_from_headers and mark_request_success *)

\* a response's rate-limit headers; Absent where the header is missing
Headers(bl, br, bs, gl, gr, gs) ==
    [ burst_limit |-> bl, burst_remaining |-> br, burst_reset |-> bs,
      limit |-> gl, remaining |-> gr, reset |-> gs ]

NoHeaders == Headers(Absent, Absent, Absent, Absent, Absent, Absent)

\* a header value that int() does not accept: int(headers[...]) raises ValueError
Malformed == -2

\* the order in which the six headers are read
HeaderOrder ==
    << "burst_limit", "burst_remaining", "burst_reset", "limit", "remaining", "reset" >>

\* the place of a header in that order
PlaceOf(k) == CHOOSE i \in 1..Len(HeaderOrder) : HeaderOrder[i] = k

\* the place of the first of the headers in keys whose value is not an integer,
\* one past the last place if all are integers
FirstMalformed(h, keys) ==
    LET bad == { PlaceOf(k) : k \in { k2 \in keys : h[k2] = Malformed } }
    IN IF bad = {} THEN Len(HeaderOrder) + 1
       ELSE CHOOSE i \in bad : \A j \in bad : i <= j

\* effective_ratio = max(0.1, remaining_ratio / backoff_factor), as <<num, den>>
\* with remaining_ratio = global_remaining / global_limit
\* and backoff_factor = 1.0 + consecutive_rate_limit_errors * 0.2
EffectiveRatio(rl) ==
    LET num == 5 * rl.global_remaining
        den == rl.global_limit * (5 + rl.consecutive_rate_limit_errors)
    IN IF 10 * num < den THEN << 1, 10 >> ELSE << num, den >>

UpdateFromHeaders(rl, h) ==
    IF ~rl.adaptive \/ h = NoHeaders THEN rl
    ELSE
      LET hasBurst == /\ h.burst_limit # Absent
                      /\ h.burst_remaining # Absent
                      /\ h.burst_reset # Absent
          is_rate_limited == hasBurst /\ h.burst_remaining = 0
          r1 == IF hasBurst
                THEN [ rl EXCEPT
                         !.consecutive_rate_limit_errors =
                             IF h.burst_remaining = 0 THEN @ + 1 ELSE 0,
                         !.backoff_multiplier =
                             IF h.burst_remaining = 0 THEN @ ELSE 10,
                         !.burst_limit = h.burst_limit,
                         !.burst_remaining = h.burst_remaining,
                         !.burst_reset = h.burst_reset ]
                ELSE rl
          \* the global headers are parsed and assigned one after the other:
          \* the assignments made before a ValueError stay
          bad == FirstMalformed(h, { "limit", "remaining", "reset" })
          r2 == IF h.limit # Absent /\ h.remaining # Absent
                THEN [ r1 EXCEPT
                         !.global_limit =
                             IF PlaceOf("limit") < bad THEN h.limit ELSE @,
                         !.global_remaining =
                             IF PlaceOf("remaining") < bad THEN h.remaining ELSE @,
                         !.global_reset =
                             IF h.reset # Absent /\ PlaceOf("reset") < bad
                             THEN h.reset ELSE @ ]
                ELSE r1
          ratio == EffectiveRatio(r2)
      IN \* the three burst values are parsed before any of them is assigned
         IF hasBurst /\ Malformed \in { h.burst_limit, h.burst_remaining,
                                         h.burst_reset }
         THEN rl
         ELSE IF h.limit # Absent /\ h.remaining # Absent
                 /\ bad <= Len(HeaderOrder)
         THEN r2
         ELSE
         IF /\ is_rate_limited
            /\ r2.burst_remaining = 0 /\ r2.burst_reset > 0
            /\ r2.global_limit > 0 /\ r2.global_remaining > 0
         THEN [ r2 EXCEPT
                  !.rate = (@ * ratio[1]) \div ratio[2],
                  !.max_tokens = Max(1, (@ * ratio[1]) \div ratio[2]) ]
         ELSE r2

\* a mark_request_success that leaves the multiplier as it is
MarkRequestSuccessKeepingMultiplier(rl) ==
    [ rl EXCEPT !.consecutive_rate_limit_errors = 0 ]

\* a mark_request_success that also takes the burst quota as available again
MarkRequestSuccessClearingBurst(rl) ==
    [ rl EXCEPT !.consecutive_rate_limit_errors = 0, !.backoff_multiplier = 10,
                !.burst_remaining = rl.burst_limit ]

\* RateLimiter.mark_request_success
MarkRequestSuccess(rl) ==
    [ rl EXCEPT !.consecutive_rate_limit_errors = 0, !.backoff_multiplier = 10 ]

-----------------------------------------------------------------------------
(* RateLimiter.acquire, one thread's call.  The code between two sleeps    *)
(* runs as one step; the lock is taken on entry and released on return.    *)

\* a thread's acquire frame; completed counts the acquire calls that have
\* returned to it since its caller began, error tells that the strategy raised
\* in the call, slept that the call has been through a time.sleep
IdleAcq == [ pc |-> "idle", endpoint |-> None, rate |-> 0, max_requests |-> 0,
            completed |-> 0, error |-> FALSE, slept |-> FALSE ]

\* the call returns normally from the strategy: metrics, then the lock is released
Admit(t, rl) ==
    /\ rate_limiter' = Returned(Tracked(rl, acq[t].endpoint), acq[t].slept)
    /\ lock' = Free
    /\ acq' = [ acq EXCEPT ![t].pc = "done", ![t].completed = @ + 1 ]
    /\ sleep_left' = [ sleep_left EXCEPT ![t] = NotSleeping ]
    /\ UNCHANGED clientVars

\* an except branch that is left with the lock still held
AdmitAfterErrorKeepingLock(t, rl) ==
    /\ rate_limiter' = Returned(Swallowed(rl, acq[t].endpoint), acq[t].slept)
    /\ lock' = t
    /\ acq' = [ acq EXCEPT ![t].pc = "done", ![t].completed = @ + 1,
                           ![t].error = TRUE ]
    /\ sleep_left' = [ sleep_left EXCEPT ![t] = NotSleeping ]
    /\ UNCHANGED clientVars

\* the strategy raised: acquire swallows the exception and returns
AdmitAfterError(t, rl) ==
    /\ rate_limiter' = Returned(Swallowed(rl, acq[t].endpoint), acq[t].slept)
    /\ lock' = Free
    /\ acq' = [ acq EXCEPT ![t].pc = "done", ![t].completed = @ + 1,
                           ![t].error = TRUE ]
    /\ sleep_left' = [ sleep_left EXCEPT ![t] = NotSleeping ]
    /\ UNCHANGED clientVars

\* time.sleep(wait) inside acquire: the lock stays with the thread
SleepInAcquire(t, rl, pc, wait, rate, max_requests) ==
    /\ rate_limiter' = rl
    /\ lock' = t
    /\ acq' = [ acq EXCEPT ![t].pc = pc, ![t].rate = rate,
                           ![t].max_requests = max_requests, ![t].slept = TRUE ]
    /\ sleep_left' = [ sleep_left EXCEPT ![t] = wait ]
    /\ UNCHANGED clientVars

\* a multiplier that grows without a cap
BackoffMultiplierUncapped(errors) == 10 + 5 * errors

\* min(10.0, 1.0 + (self.consecutive_rate_limit_errors * 0.5)), in tenths
BackoffMultiplier(errors) == Min(100, 10 + 5 * errors)

\* a wait of the reported reset alone, without buffer or multiplier
BurstWaitWithoutBuffer(rl) == rl.burst_reset * TicksPerSecond

\* wait_time of the adaptive branch of _acquire_token_bucket, before jitter
BurstWait(rl) ==
    IF rl.consecutive_rate_limit_errors > 0
    THEN CeilDiv(rl.burst_reset * BackoffMultiplier(rl.consecutive_rate_limit_errors)
                   * BufferNum, BufferDen)
    ELSE CeilDiv(rl.burst_reset * TicksPerSecond * BufferNum, BufferDen)

\* the value the jitter of that wait is drawn for
BurstJitterBase(rl) ==
    IF rl.consecutive_rate_limit_errors > 0
    THEN BurstWait(rl)
    ELSE rl.burst_reset * TicksPerSecond

\* relief_wait = pressure_relief_wait * (1.0 + errors * 0.2), before jitter
ReliefWait(rl) ==
    CeilDiv(DEFAULT_PRESSURE_RELIEF_WAIT * (5 + rl.consecutive_rate_limit_errors), 5)

\* wait_time = max(MIN_WAIT_TIME, 1.0 / rate)
TokenWait(rate) == Max(MIN_WAIT_TIME, CeilDiv(Scale, rate))

\* the while loop of _acquire_token_bucket, from its test to the next sleep or the end
TokenBucketLoop(t, rl, rate) ==
    IF rl.tokens > 0
    THEN Admit(t, Consume(rl))
    ELSE LET r2 == Refill(rl, rate) IN
         IF r2.tokens > 0 THEN Admit(t, Consume(r2))
         ELSE IF rate = 0 THEN AdmitAfterError(t, r2)
         ELSE \E j \in AddJitter(TokenWait(rate)) :
                 SleepInAcquire(t, r2, "tb_sleep", TokenWait(rate) + j, rate, 0)

\* _acquire_token_bucket from its first line
AcquireTokenBucket(t, rl, endpoint) ==
    LET rate == RateFor(rl, endpoint) IN
    IF rl.adaptive /\ rl.burst_remaining = 0 /\ rl.burst_reset > 0
    THEN LET r2 == IF rl.consecutive_rate_limit_errors > 0
                   THEN [ rl EXCEPT !.backoff_multiplier =
                            BackoffMultiplier(rl.consecutive_rate_limit_errors) ]
                   ELSE rl
         IN \E j \in AddJitter(BurstJitterBase(rl)) :
               SleepInAcquire(t, r2, "burst_sleep", BurstWait(rl) + j, rate, 0)
    ELSE TokenBucketLoop(t, rl, rate)

\* wait_time of _acquire_fixed_window: window_start is now - window_size
FixedWindowWait(window_size) ==
    LET now == 0
        window_start == now - window_size
    IN Max(MIN_WAIT_TIME, window_size - (now - window_start))

\* the while loop of _acquire_fixed_window, the window already cleaned
FixedWindowLoop(t, rl, key, max_requests) ==
    IF Len(rl.request_timestamps[key]) >= max_requests
    THEN SleepInAcquire(t, rl, "fw_sleep", FixedWindowWait(rl.window_size),
                        0, max_requests)
    ELSE Admit(t, RecordRequest(rl, key))

\* wait_time of _acquire_sliding_window: until the oldest request leaves the window
SlidingWindowWait(stamps, window_size) ==
    Max(MIN_WAIT_TIME, window_size - Head(stamps))

\* the while loop of _acquire_sliding_window, the window already cleaned
SlidingWindowLoop(t, rl, key, max_requests) ==
    IF /\ Len(rl.request_timestamps[key]) >= max_requests
       /\ rl.request_timestamps[key] # << >>
    THEN SleepInAcquire(t, rl, "sw_sleep",
                        SlidingWindowWait(rl.request_timestamps[key], rl.window_size),
                        0, max_requests)
    ELSE Admit(t, RecordRequest(rl, key))

\* with self._lock: dispatch on the strategy
AcquireEnter(t) ==
    /\ acq[t].pc = "call"
    /\ lock = Free
    /\ LET e == acq[t].endpoint
           rl == rate_limiter
       IN CASE rl.strategy = TOKEN_BUCKET -> AcquireTokenBucket(t, rl, e)
            [] rl.strategy = FIXED_WINDOW ->
                 FixedWindowLoop(t, CleanWindow(rl, KeyOf(e)), KeyOf(e),
                                 MaxRequestsFor(RateFor(rl, e), rl.window_size))
            [] rl.strategy = SLIDING_WINDOW ->
                 SlidingWindowLoop(t, CleanWindow(rl, KeyOf(e)), KeyOf(e),
                                   MaxRequestsFor(RateFor(rl, e), rl.window_size))

\* the sleep of the token loop is over: the loop tests again
WakeTokenBucket(t) ==
    /\ acq[t].pc = "tb_sleep"
    /\ sleep_left[t] = 0
    /\ TokenBucketLoop(t, rate_limiter, acq[t].rate)

\* the burst-reset sleep is over: the pressure-relief sleep follows
WakeBurstSleep(t) ==
    /\ acq[t].pc = "burst_sleep"
    /\ sleep_left[t] = 0
    /\ \E j \in AddJitter(DEFAULT_PRESSURE_RELIEF_WAIT) :
          SleepInAcquire(t, rate_limiter, "relief_sleep",
                         ReliefWait(rate_limiter) + j, acq[t].rate, 0)

\* the pressure-relief sleep is over: tokens = 1, last_update = now, return
WakeReliefSleep(t) ==
    /\ acq[t].pc = "relief_sleep"
    /\ sleep_left[t] = 0
    /\ Admit(t, [ rate_limiter EXCEPT !.tokens = Scale, !.since_update = 0,
                                      !.refilled = TRUE ])

WakeFixedWindow(t) ==
    /\ acq[t].pc = "fw_sleep"
    /\ sleep_left[t] = 0
    /\ FixedWindowLoop(t, CleanWindow(rate_limiter, KeyOf(acq[t].endpoint)),
                       KeyOf(acq[t].endpoint), acq[t].max_requests)

WakeSlidingWindow(t) ==
    /\ acq[t].pc = "sw_sleep"
    /\ sleep_left[t] = 0
    /\ SlidingWindowLoop(t, CleanWindow(rate_limiter, KeyOf(acq[t].endpoint)),
                         KeyOf(acq[t].endpoint), acq[t].max_requests)

-----------------------------------------------------------------------------
(* The passage of time *)

Sleepers == { t \in Threads : sleep_left[t] > 0 }

\* the smallest element of a non-empty set of numbers
Least(S) == CHOOSE x \in S : \A y \in S : x <= y

\* time advances to the end of the sleep that ends first
TimePasses ==
    /\ Sleepers # {}
    /\ LET d == Least({ sleep_left[t] : t \in Sleepers }) IN
         /\ rate_limiter' = Elapse(rate_limiter, d)
         /\ sleep_left' = [ t \in Threads |->
                              IF t \in Sleepers THEN sleep_left[t] - d
                              ELSE sleep_left[t] ]
    /\ UNCHANGED << lock, acq, clientVars >>

\* one tick passes while no thread is asleep
Tick ==
    /\ \A t \in Threads : sleep_left[t] = NotSleeping
    /\ rate_limiter.since_update < MaxElapsed
    /\ Elapse(rate_limiter, 1) # rate_limiter
    /\ rate_limiter' = Elapse(rate_limiter, 1)
    /\ UNCHANGED << lock, acq, sleep_left, clientVars >>

-----------------------------------------------------------------------------
(* retry.py: RetryConfig and RetryHandler *)

DEFAULT_RETRY_CODES == { 429, 500, 502, 503, 504 }
\* MAX_BACKOFF_TIME = 60.0 s
MAX_BACKOFF_TIME == 600

\* RetryHandler.__init__; retry_delay in ticks, backoff_factor in tenths
NewRetryHandler(max_retries, retry_delay, backoff_factor) ==
    [ config |-> [ max_retries |-> max_retries,
                   retry_delay |-> retry_delay,
                   backoff_factor |-> backoff_factor,
                   retry_codes |-> DEFAULT_RETRY_CODES ],
      current_retry |-> 0 ]

RECURSIVE Pow(_, _)
Pow(b, n) == IF n <= 0 THEN 1 ELSE b * Pow(b, n - 1)

\* a should_retry that looks at the retry budget only
ShouldRetryAnyStatus(config, status_code, retry_count) ==
    retry_count < config.max_retries

\* RetryHandler.should_retry
ShouldRetry(config, status_code, retry_count) ==
    status_code \in config.retry_codes /\ retry_count < config.max_retries

\* a wait_before_retry without the ceiling
BackoffTimeUncapped(config, retry_count) ==
    CeilDiv(config.retry_delay * Pow(config.backoff_factor, retry_count - 1),
            Pow(10, retry_count - 1))

\* RetryHandler.wait_before_retry: the time it sleeps for
BackoffTime(config, retry_count) ==
    Min(CeilDiv(config.retry_delay * Pow(config.backoff_factor, retry_count - 1),
                Pow(10, retry_count - 1)),
        MAX_BACKOFF_TIME)

-----------------------------------------------------------------------------
(* client.py: what the server answers and what the client makes of it *)

\* a JustCallException: status code, the headers attribute when it was set,
\* and the attempt (call of the operation) that raised it
Exception(status_code, has_headers, headers, attempt) ==
    [ status_code |-> status_code, has_headers |-> has_headers,
      headers |-> headers, attempt |-> attempt ]

NoException == Exception(0, FALSE, NoHeaders, 0)

\* what one session.request call ends in: a RequestException, or a response
Outcome(kind, status, json_ok, headers) ==
    [ kind |-> kind, status |-> status, json_ok |-> json_ok, headers |-> headers ]

ThrottleHeaders == Headers(2, 0, 1, 4, 2, Absent)
OkHeaders == Headers(2, 1, 0, 4, 3, 0)

ServerOutcomes ==
    { Outcome("error", 0, FALSE, NoHeaders),
      Outcome("response", 200, TRUE, NoHeaders),
      Outcome("response", 200, TRUE, OkHeaders),
      Outcome("response", 200, FALSE, NoHeaders),
      Outcome("response", 404, TRUE, NoHeaders),
      Outcome("response", 429, TRUE, ThrottleHeaders),
      Outcome("response", 429, TRUE, NoHeaders),
      Outcome("response", 500, TRUE, NoHeaders),
      Outcome("response", 503, TRUE, OkHeaders) }

\* JustCallClient.__init__: rate_limit_info
InitialRateLimitInfo ==
    [ burst_limit |-> 60, burst_remaining |-> 60, burst_reset |-> 0,
      limit |-> 3600, remaining |-> 3600, reset |-> 0 ]

\* an update that stores nothing when one of the values is not an integer
UpdateRateLimitInfoAllOrNothing(info, h) ==
    IF \E k \in DOMAIN info : h[k] = Malformed THEN info
    ELSE [ k \in DOMAIN info |-> IF h[k] # Absent THEN h[k] ELSE info[k] ]

\* JustCallClient._update_rate_limits_from_headers: each header present is parsed
\* and stored in turn, until one of them raises ValueError
UpdateRateLimitInfo(info, h) ==
    [ k \in DOMAIN info |->
        IF h[k] # Absent /\ PlaceOf(k) < FirstMalformed(h, DOMAIN info)
        THEN h[k] ELSE info[k] ]

\* _adjust_rate_limiter_from_headers: MIN_RATE = 1.0 / 60.0 per second
MIN_RATE == Scale \div (60 * TicksPerSecond)

\* the second half of _adjust_rate_limiter_from_headers: the general limits
AdjustGeneral(rl, h) ==
    IF h.remaining # Absent /\ h.limit # Absent
    THEN LET reset == IF h.reset # Absent THEN h.reset ELSE 3600 IN
         IF 10 * h.remaining < h.limit /\ h.remaining > 0 /\ reset # 0
         THEN [ rl EXCEPT !.rate =
                  Max(MIN_RATE, (h.remaining * Scale) \div (reset * TicksPerSecond)) ]
         ELSE rl
    ELSE rl

\* burst_reset = int(headers.get('x-rate-limit-burst-reset', 60))
BurstResetOf(h) == IF h.burst_reset # Absent THEN h.burst_reset ELSE 60

\* whether _adjust_rate_limiter_from_headers reaches its time.sleep(short_wait)
AdjustSleeps(h) ==
    h.burst_remaining = 0 /\ BurstResetOf(h) # 0

\* short_wait = min(MAX_SHORT_WAIT, burst_reset * SHORT_WAIT_FACTOR): min(5 s, reset / 4)
ShortWait(h) == Min(5 * TicksPerSecond, CeilDiv(BurstResetOf(h) * TicksPerSecond, 4))

\* the limiter as the burst branch leaves it before sleeping:
\* rate = max(MIN_RATE, 1.0 / (burst_reset * BUFFER_FACTOR)), BUFFER_FACTOR = 1.2
AdjustBurst(rl, h) ==
    [ rl EXCEPT !.rate = Max(MIN_RATE,
                             (Scale * 10) \div (BurstResetOf(h) * 12 * TicksPerSecond)),
                !.max_tokens = 1 ]

\* a swap that takes burst_reset / 2 as the new retry_delay whatever the old one
SwappedRetryConfigWithoutMax(config, h) ==
    [ max_retries |-> config.max_retries,
      retry_delay |-> (BurstResetOf(h) * TicksPerSecond) \div 2,
      backoff_factor |-> 20,
      retry_codes |-> config.retry_codes ]

\* the retry configuration installed after the sleep
SwappedRetryConfig(config, h) ==
    [ max_retries |-> config.max_retries,
      retry_delay |-> Max(config.retry_delay,
                          (BurstResetOf(h) * TicksPerSecond) \div 2),
      backoff_factor |-> 20,
      retry_codes |-> config.retry_codes ]

\* _adjust_rate_limiter_from_headers when it does not sleep: burst_remaining is
\* absent, or 0 with burst_reset = 0 (the division raises and is swallowed), or
\* positive (below 10 the rate is scaled by max(0.2, burst_remaining / 10))
AdjustWithoutSleep(rl, h) ==
    IF h.burst_remaining = Absent THEN AdjustGeneral(rl, h)
    ELSE IF h.burst_remaining = 0 THEN rl
    ELSE IF h.burst_remaining < 10
         THEN AdjustGeneral([ rl EXCEPT !.rate = (@ * Max(2, h.burst_remaining)) \div 10 ], h)
         ELSE AdjustGeneral(rl, h)

-----------------------------------------------------------------------------
(* Two JustCallClient instances in one process.  The objects a client owns *)
(* are numbered in the order of their construction; the first client's are *)
(* held in rate_limiter and retry_handler, the second client's in other.   *)

\* the RateLimiter and the RetryHandler the first client constructed
FirstClientRefs == [ rate_limiter |-> 1, retry_handler |-> 1 ]

\* a constructor that hands out the objects that exist already
SingletonRefs(existing) == existing

\* JustCallClient.__init__: self.rate_limiter = RateLimiter(...) and
\* self.retry_handler = RetryHandler(...), new objects for every instance
NewClientRefs(existing) ==
    [ rate_limiter |-> existing.rate_limiter + 1,
      retry_handler |-> existing.retry_handler + 1 ]

\* the second client after __init__; rate_limiter and retry_handler are the values
\* of the objects it constructed, requests counts the requests it has made
SecondClient ==
    [ refs |-> NewClientRefs(FirstClientRefs),
      rate_limiter |-> NewRateLimiter(Scale \div TicksPerSecond, 60, TOKEN_BUCKET,
                                      60 * TicksPerSecond, [e \in {} |-> 0], TRUE),
      retry_handler |-> NewRetryHandler(MaxRetries, 2 * TicksPerSecond, 15),
      requests |-> 0 ]

\* the objects other.refs refers to
TheirLimiter ==
    IF other.refs.rate_limiter = FirstClientRefs.rate_limiter
    THEN rate_limiter ELSE other.rate_limiter
TheirHandler ==
    IF other.refs.retry_handler = FirstClientRefs.retry_handler
    THEN retry_handler ELSE other.retry_handler

\* one attempt of a request of the second client whose acquire finds a token:
\* acquire on its limiter, the answer o, and for a 429 the adjustments of
\* _adjust_rate_limiter_from_headers to its limiter and its retry handler
\* (the waits of the attempt are left out)
OtherRequest(o) ==
    /\ other.requests < MaxRequests
    /\ TheirLimiter.tokens > 0
    /\ LET h == o.headers
           admitted == Tracked(Consume(TheirLimiter), "/a")
           throttled == o.kind = "response" /\ o.status = 429
           rl == IF ~throttled THEN admitted
                 ELSE IF AdjustSleeps(h) THEN AdjustGeneral(AdjustBurst(admitted, h), h)
                 ELSE AdjustWithoutSleep(admitted, h)
           rh == IF throttled /\ AdjustSleeps(h)
                 THEN [ TheirHandler EXCEPT !.config = SwappedRetryConfig(@, h) ]
                 ELSE TheirHandler
           own_rl == other.refs.rate_limiter # FirstClientRefs.rate_limiter
           own_rh == other.refs.retry_handler # FirstClientRefs.retry_handler
       IN /\ rate_limiter' = IF own_rl THEN rate_limiter ELSE rl
          /\ retry_handler' = IF own_rh THEN retry_handler ELSE rh
          /\ other' = [ other EXCEPT !.rate_limiter = IF own_rl THEN rl ELSE @,
                                     !.retry_handler = IF own_rh THEN rh ELSE @,
                                     !.requests = @ + 1 ]
    /\ UNCHANGED << lock, acq, sleep_left, rate_limit_info, session, req, pagVars, sent >>

-----------------------------------------------------------------------------
(* Request arguments: Python values, utils/datetime.py and                 *)
(* JustCallClient._prepare_request_params                                  *)

\* a Python value: tag is its type, text the content of a str or an int, fields
\* the numbers of a date (year, month, day) or of a datetime (year, month, day,
\* hour, minute, second), items the values of a dict, in the order of its keys,
\* or the elements of a list
Value(tag, text, fields, items) ==
    [ tag |-> tag, text |-> text, fields |-> fields, items |-> items ]

PyNone == Value("none", "", << >>, << >>)
PyBool(b) == Value("bool", IF b THEN "True" ELSE "False", << >>, << >>)
PyInt(n) == Value("int", ToString(n), << >>, << >>)
PyStr(text) == Value("str", text, << >>, << >>)
PyDate(y, m, d) == Value("date", "", << y, m, d >>, << >>)
PyDateTime(y, m, d, H, M, S) == Value("datetime", "", << y, m, d, H, M, S >>, << >>)
PyDict(items) == Value("dict", "", << >>, items)
PyList(items) == Value("list", "", << >>, items)

\* %m, %d, %H, %M, %S of strftime: two digits
TwoDigits(n) == IF n < 10 THEN "0" \o ToString(n) ELSE ToString(n)

\* value.strftime("%Y-%m-%d")
ToApiDate(value) ==
    PyStr(ToString(value.fields[1]) \o "-" \o TwoDigits(value.fields[2])
            \o "-" \o TwoDigits(value.fields[3]))

\* value.strftime("%Y-%m-%d %H:%M:%S")
ToApiDatetime(value) ==
    PyStr(ToApiDate(value).text \o " " \o TwoDigits(value.fields[4])
            \o ":" \o TwoDigits(value.fields[5]) \o ":" \o TwoDigits(value.fields[6]))

\* bool(value) for the values of the model: None and empty containers are false
Truthy(value) ==
    /\ value.tag # "none"
    /\ value.tag \in { "dict", "list" } => value.items # << >>

RECURSIVE PrepareRequestParams(_)
\* _prepare_request_params: the values of the dict, one by one; the elements of
\* a list are converted by the list branch
PrepareRequestParams(params) ==
    IF ~Truthy(params) THEN params
    ELSE LET ListItem(item) ==
                 IF item.tag = "dict" THEN PrepareRequestParams(item)
                 ELSE IF item.tag = "datetime" THEN ToApiDatetime(item)
                 ELSE IF item.tag = "date" THEN ToApiDate(item)
                 ELSE item
             Converted(v) ==
                 IF v = PyBool(TRUE) THEN PyInt(1)
                 ELSE IF v = PyBool(FALSE) THEN PyInt(0)
                 ELSE IF v.tag = "datetime" THEN ToApiDatetime(v)
                 ELSE IF v.tag = "date" THEN ToApiDate(v)
                 ELSE IF v.tag = "dict" THEN PrepareRequestParams(v)
                 ELSE IF v.tag = "list"
                      THEN PyList([ i \in 1..Len(v.items) |-> ListItem(v.items[i]) ])
                 ELSE v
         IN PyDict([ i \in 1..Len(params.items) |-> Converted(params.items[i]) ])

\* no request is being prepared
NothingSent ==
    [ pc |-> "none", params |-> PyNone, json |-> PyNone,
      request_params |-> PyNone, wire_params |-> PyNone, wire_json |-> PyNone ]

\* _make_request(method, endpoint, params, json) is called
RequestWith(params, json) ==
    [ NothingSent EXCEPT !.pc = "called", !.params = params, !.json = json ]

\* _do_request: request_params = self._prepare_request_params(params) if params else None
PrepareParams ==
    /\ sent.pc = "called"
    /\ sent' = [ sent EXCEPT !.pc = "prepared",
                             !.request_params =
                                 IF Truthy(sent.params)
                                 THEN PrepareRequestParams(sent.params)
                                 ELSE PyNone ]
    /\ UNCHANGED << limiterVars, retry_handler, rate_limit_info, session, req, pagVars,
                    other >>

\* _do_request: self.session.request(method, url, params=request_params, json=json)
SessionRequest ==
    /\ sent.pc = "prepared"
    /\ sent' = [ sent EXCEPT !.pc = "transmitted",
                             !.wire_params = sent.request_params,
                             !.wire_json = sent.json ]
    /\ UNCHANGED << limiterVars, retry_handler, rate_limit_info, session, req, pagVars,
                    other >>

-----------------------------------------------------------------------------
(* JustCallClient.session: __init__, __enter__, __exit__ and the lazy      *)
(* creation in _do_request.  The requests.Session objects are numbered     *)
(* 1, 2, ... in the order of their creation.                               *)

\* self.session = None
NoObject == 0

\* ref is the object self.session refers to, created the number of objects
\* made so far, closed those whose close() was called, lazy those that
\* _do_request made
NoSession == [ ref |-> NoObject, created |-> 0, closed |-> {}, lazy |-> {} ]

\* the objects open at the moment
OpenSessions(s) == (1..s.created) \ s.closed

\* self.session = requests.Session()
NewSession(s) == [ s EXCEPT !.created = @ + 1, !.ref = s.created + 1 ]

\* _do_request: if not self.session: self.session = requests.Session()
LazySession(s) ==
    IF s.ref = NoObject
    THEN [ NewSession(s) EXCEPT !.lazy = @ \cup { s.created + 1 } ]
    ELSE s

\* an exit that closes the object and keeps referring to it
CloseSessionKeepingRef(s) ==
    IF s.ref # NoObject THEN [ s EXCEPT !.closed = @ \cup { s.ref } ] ELSE s

\* __exit__: if self.session: self.session.close(); self.session = None
CloseSession(s) ==
    IF s.ref # NoObject
    THEN [ s EXCEPT !.closed = @ \cup { s.ref }, !.ref = NoObject ]
    ELSE s

\* the thread is not inside _make_request
Outside(t) == req[t].pc \in { "idle", "returned", "raised" } /\ acq[t].pc = "idle"

\* with client: the scope is entered
Enter(t) ==
    /\ Outside(t)
    /\ session.created < MaxSessions
    /\ session' = NewSession(session)
    /\ UNCHANGED << limiterVars, retry_handler, rate_limit_info, req, pagVars, sent, other >>

\* the scope is left
Exit(t) ==
    /\ Outside(t)
    /\ session' = CloseSession(session)
    /\ UNCHANGED << limiterVars, retry_handler, rate_limit_info, req, pagVars, sent, other >>

-----------------------------------------------------------------------------
(* JustCallClient._make_request: RetryHandler.execute_with_retry around    *)
(* _do_request.  The code between two blocking calls runs as one step.     *)

\* threads that issue requests through the client
Callers == { 1 }

\* a caller's _make_request frame; at holds, for each session.request call, the
\* reading of the limiter's elapsed time when it was made (0 where time is not kept)

IdleReq ==
    [ pc |-> "idle", calls |-> 0, use_rl |-> FALSE, expect_json |-> TRUE,
      retry_count |-> 0, last_exception |-> NoException, pending |-> NoException,
      func_calls |-> 0, transports |-> 0, backoff_waits |-> 0, log |-> << >>,
      delivered |-> NoException, result |-> "none", at |-> << >> ]

\* a handler that kept the first failure instead of the one being handled
DeliveredFirst(log, e) == log[1]

\* the exception a bare `raise` in the except block delivers: the one being handled
Delivered(log, e) == e

\* an operation that asks for admission on its first attempt only
CallOperationBypassOnRetry(t, fr) ==
    /\ session' = LazySession(session)
    /\ acq' = [ acq EXCEPT ![t].pc = IF fr.retry_count > 0 THEN "done" ELSE "call",
                           ![t].endpoint = "/a",
                           ![t].completed = IF fr.func_calls = 0 THEN 0 ELSE @,
                           ![t].error = FALSE, ![t].slept = FALSE ]
    /\ req' = [ req EXCEPT ![t] = [ fr EXCEPT !.pc = "acquire",
                                              !.func_calls = @ + 1 ] ]
    /\ sleep_left' = [ sleep_left EXCEPT ![t] = NotSleeping ]
    /\ UNCHANGED << rate_limiter, lock, retry_handler, rate_limit_info, sent, other >>

\* execute_with_retry calls func(): _do_request runs up to rate_limiter.acquire;
\* acq[t].completed counts the acquire calls that returned within this _make_request
CallOperation(t, fr) ==
    /\ session' = LazySession(session)
    /\ acq' = [ acq EXCEPT ![t].pc = "call", ![t].endpoint = "/a",
                           ![t].completed = IF fr.func_calls = 0 THEN 0 ELSE @,
                           ![t].error = FALSE, ![t].slept = FALSE ]
    /\ req' = [ req EXCEPT ![t] = [ fr EXCEPT !.pc = "acquire",
                                              !.func_calls = @ + 1 ] ]
    /\ sleep_left' = [ sleep_left EXCEPT ![t] = NotSleeping ]
    /\ UNCHANGED << rate_limiter, lock, retry_handler, rate_limit_info, sent, other >>

\* a caller enters _make_request; use_rl: execute_with_retry is given rate_limiter
MakeRequest(t, use_rl, expect_json) ==
    /\ req[t].pc \in { "idle", "returned", "raised" }
    /\ acq[t].pc = "idle"
    /\ CallOperation(t, [ IdleReq EXCEPT !.calls = req[t].calls + 1,
                                         !.use_rl = use_rl,
                                         !.expect_json = expect_json ])

\* _do_request goes on to session.request once acquire has returned
TransportReady(t) == acq[t].pc = "done"

\* the except block of execute_with_retry, entered with exception e; rl and rh are
\* the limiter and the retry handler as the operation left them
Raise(t, fr, e, rl, rh) ==
    LET retry_count == fr.retry_count + 1
        feed == e.has_headers /\ e.headers # NoHeaders /\ fr.use_rl
        should_retry ==
            IF feed /\ e.status_code = 429
            THEN retry_count <= rh.config.max_retries
            ELSE ShouldRetry(rh.config, e.status_code, retry_count)
        fr2 == [ fr EXCEPT !.retry_count = retry_count, !.last_exception = e,
                           !.pending = NoException, !.log = Append(@, e) ]
    IN /\ rate_limiter' = IF feed THEN UpdateFromHeaders(rl, e.headers) ELSE rl
       /\ retry_handler' = rh
       /\ IF ~should_retry
          THEN /\ req' = [ req EXCEPT ![t] =
                            [ fr2 EXCEPT !.pc = "raised",
                                         !.delivered = Delivered(fr2.log, e) ] ]
               /\ sleep_left' = [ sleep_left EXCEPT ![t] = NotSleeping ]
          ELSE IF retry_count <= rh.config.max_retries
          THEN /\ req' = [ req EXCEPT ![t] =
                            [ fr2 EXCEPT !.pc = "backoff_sleep",
                                         !.backoff_waits = @ + 1 ] ]
               /\ sleep_left' = [ sleep_left EXCEPT ![t] =
                                    BackoffTime(rh.config, retry_count) ]
          ELSE /\ req' = [ req EXCEPT ![t] =
                            [ fr2 EXCEPT !.pc = "raised",
                                         !.delivered = fr2.last_exception ] ]
               /\ sleep_left' = [ sleep_left EXCEPT ![t] = NotSleeping ]

\* the operation returned: execute_with_retry returns its result
Return(t, fr, body) ==
    /\ req' = [ req EXCEPT ![t] = [ fr EXCEPT !.pc = "returned", !.result = body ] ]
    /\ UNCHANGED << rate_limiter, retry_handler, sleep_left >>

\* a malformed body surfaced as a server error
InvalidJSONAsServerError(status, attempt) == Exception(500, FALSE, NoHeaders, attempt)

\* except ValueError: raise JustCallException(status_code=response.status_code,
\* message="Invalid JSON response from API")
InvalidJSON(status, attempt) == Exception(status, FALSE, NoHeaders, attempt)

\* a transport failure surfaced as a client error
TransportErrorAsBadRequest(attempt) == Exception(400, FALSE, NoHeaders, attempt)

\* except requests.RequestException: raise JustCallException(status_code=500, ...)
TransportError(attempt) == Exception(500, FALSE, NoHeaders, attempt)

\* session.request and the rest of _do_request, up to its return, its raise or
\* the sleep inside _adjust_rate_limiter_from_headers
Transport(t, o) ==
    /\ req[t].pc = "acquire"
    /\ TransportReady(t)
    /\ acq' = [ acq EXCEPT ![t].pc = "idle", ![t].error = FALSE, ![t].slept = FALSE ]
    /\ UNCHANGED << lock, session, pagVars, sent, other >>
    /\ LET fr == [ req[t] EXCEPT !.transports = @ + 1,
                                 !.at = Append(@, rate_limiter.elapsed) ]
           attempt == fr.func_calls
       IN IF o.kind = "error"
          THEN /\ Raise(t, fr, TransportError(attempt), rate_limiter, retry_handler)
               /\ UNCHANGED rate_limit_info
          ELSE /\ rate_limit_info' = UpdateRateLimitInfo(rate_limit_info, o.headers)
               /\ IF o.status >= 400
                  THEN LET e == Exception(o.status, TRUE, o.headers, attempt) IN
                       IF o.status = 429 /\ AdjustSleeps(o.headers)
                       THEN /\ rate_limiter' = AdjustBurst(rate_limiter, o.headers)
                            /\ req' = [ req EXCEPT ![t] =
                                         [ fr EXCEPT !.pc = "adjust_sleep",
                                                     !.pending = e ] ]
                            /\ sleep_left' = [ sleep_left EXCEPT ![t] =
                                                 ShortWait(o.headers) ]
                            /\ UNCHANGED retry_handler
                       ELSE IF o.status = 429
                       THEN Raise(t, fr, e,
                                  AdjustWithoutSleep(rate_limiter, o.headers),
                                  retry_handler)
                       ELSE Raise(t, fr, e, rate_limiter, retry_handler)
                  ELSE IF fr.expect_json /\ ~o.json_ok
                  THEN Raise(t, fr, InvalidJSON(o.status, attempt),
                             rate_limiter, retry_handler)
                  ELSE Return(t, fr, "body")

\* the short sleep of _adjust_rate_limiter_from_headers is over: the retry
\* configuration is swapped, the general limits are looked at, the exception raised
WakeAdjust(t) ==
    /\ req[t].pc = "adjust_sleep"
    /\ sleep_left[t] = 0
    /\ Raise(t, req[t], req[t].pending,
             AdjustGeneral(rate_limiter, req[t].pending.headers),
             [ retry_handler EXCEPT !.config =
                 SwappedRetryConfig(@, req[t].pending.headers) ])
    /\ UNCHANGED << lock, acq, rate_limit_info, session, pagVars, sent, other >>

\* wait_before_retry is over: the loop calls the operation again
WakeBackoff(t) ==
    /\ req[t].pc = "backoff_sleep"
    /\ sleep_left[t] = 0
    /\ CallOperation(t, req[t])
    /\ UNCHANGED pagVars

-----------------------------------------------------------------------------
(* client.py: JustCallClient._paginate, a generator, and its consumer      *)

RECURSIVE Concat(_)
\* the items of a sequence of pages, in order
Concat(pages) ==
    IF pages = << >> THEN << >>
    ELSE Concat(SubSeq(pages, 1, Len(pages) - 1)) \o pages[Len(pages)]

\* the frame of a _paginate call: its arguments, its locals, and what the consumer
\* has seen of it.  max_items = Absent is max_items=None; params_page, json_page
\* and caller_json_page are the values under page_key in params, in the local
\* json and in the caller's json dict; exception is what the generator raised
\* into its consumer, stop_iterations the next() calls made after its end.
NewPaginate(method, has_params, has_json, max_items, start_page) ==
    [ state |-> "created",
      method |-> method, has_params |-> has_params, has_json |-> has_json,
      max_items |-> max_items, start_page |-> start_page,
      page |-> start_page, items_returned |-> 0, items |-> << >>, idx |-> 0,
      params_page |-> Absent, json_page |-> Absent, caller_json_page |-> Absent,
      requested |-> << >>, received |-> << >>, yielded |-> << >>,
      attempts |-> << >>, stopped_after |-> Absent,
      exception |-> NoException, stop_iterations |-> 0 ]

\* no _paginate call has been made
NoPaginate == [ NewPaginate("GET", FALSE, FALSE, Absent, 0) EXCEPT !.state = "none" ]

\* the top of the while loop: the page number is written into params or json
InjectPage(g) ==
    IF g.method = "GET" /\ g.has_params
    THEN [ g EXCEPT !.params_page = g.page ]
    ELSE IF g.has_json
    THEN [ g EXCEPT !.json_page = g.page,
                    !.caller_json_page = IF g.page = g.start_page THEN g.page ELSE @ ]
    ELSE g

\* the page value the request carries, Absent if it carries none
Carried(g) == IF g.params_page # Absent THEN g.params_page ELSE g.json_page

\* a decoded response body: a dict or not, with or without items_key, whose value
\* is null or the list data
Response(is_dict, has_key, is_null, data) ==
    [ is_dict |-> is_dict, has_key |-> has_key, is_null |-> is_null, data |-> data ]

\* the bodies that hold no item
EmptyResponses ==
    { Response(TRUE, TRUE, FALSE, << >>), Response(TRUE, TRUE, TRUE, << >>),
      Response(TRUE, FALSE, FALSE, << >>), Response(FALSE, FALSE, FALSE, << >>) }

\* what the endpoint answers to a request carrying page value carried; a request
\* that carries none is answered with the endpoint's first page
ServerResponses(pages, carried, start_page) ==
    LET i == IF carried = Absent THEN 1 ELSE carried - start_page + 1 IN
    IF i \in 1..Len(pages)
    THEN { Response(TRUE, TRUE, FALSE, pages[i]) }
    ELSE EmptyResponses

\* a reading of the response that loses the first item of every page
ItemsOfTail(response) ==
    IF response.is_dict /\ response.has_key /\ ~response.is_null
       /\ response.data # << >>
    THEN Tail(response.data)
    ELSE << >>

\* items = response.get(items_key, []) for a dict, [] otherwise; None counts as empty
ItemsOf(response) ==
    IF response.is_dict /\ response.has_key /\ ~response.is_null
    THEN response.data
    ELSE << >>

\* `if max_items and items_returned >= max_items`
LimitReached(max_items, items_returned) ==
    /\ max_items # Absent
    /\ max_items # 0
    /\ items_returned >= max_items

\* a cursor that advances by two
NextPageSkipping(page) == page + 2

\* page += 1
NextPage(page) == page + 1

\* one turn of `for item in items`: return when the limit is reached, else yield
ForLoop(g) ==
    IF LimitReached(g.max_items, g.items_returned)
    THEN [ g EXCEPT !.state = "finished" ]
    ELSE [ g EXCEPT !.state = "suspended",
                    !.idx = @ + 1,
                    !.yielded = Append(@, g.items[g.idx + 1]) ]

\* the while loop's body up to the call of _make_request for page g.page
StartFetch(t, g) ==
    /\ g.page - g.start_page < MaxFetches
    /\ LET g2 == InjectPage(g) IN
         pag' = [ g2 EXCEPT !.state = "fetching",
                            !.requested =
                                Append(@, [ page |-> g.page,
                                            carried |-> Carried(g2),
                                            yielded_before |-> Len(g.yielded) ]) ]
    /\ MakeRequest(t, FALSE, TRUE)
    /\ UNCHANGED server

\* the consumer calls next(): the generator starts, or resumes after its yield
ConsumerNext(t) ==
    /\ pag.state \in { "created", "suspended" }
    /\ IF pag.state = "created"
       THEN StartFetch(t, pag)
       ELSE LET g == [ pag EXCEPT !.items_returned = @ + 1 ] IN
            IF g.idx < Len(g.items)
            THEN /\ pag' = ForLoop(g)
                 /\ UNCHANGED << limiterVars, retry_handler, rate_limit_info,
                                 session, req, server, sent, other >>
            ELSE StartFetch(t, [ g EXCEPT !.page = NextPage(@) ])

RECURSIVE Repeated(_, _)
\* a sequence n times over
Repeated(items, n) == IF n <= 0 THEN << >> ELSE items \o Repeated(items, n - 1)

\* a generator that takes the items of a page once for every transport attempt
\* its fetch needed
DeliverPerAttempt(g, response, attempts) ==
    [ g EXCEPT !.items = Repeated(ItemsOf(response), attempts), !.idx = 0,
               !.received = Append(@, response.data),
               !.attempts = Append(@, attempts) ]

\* response = self._make_request(...); items = response.get(items_key, []):
\* the generator holds the items of the one response _make_request returned;
\* attempts, the transport calls the fetch needed, is recorded and not used
Deliver(g, response, attempts) ==
    [ g EXCEPT !.items = ItemsOf(response), !.idx = 0,
               !.received = Append(@, response.data),
               !.attempts = Append(@, attempts) ]

\* a generator that survives the exception and goes on with the next page
RaiseSkippingPage(g, e) ==
    [ g EXCEPT !.state = "suspended", !.items = << >>, !.idx = 0 ]

\* `response = self._make_request(...)` raises: nothing in _paginate catches it,
\* the exception leaves the generator frame and the generator is finished
RaiseInGenerator(g, e) ==
    [ g EXCEPT !.state = "raised", !.exception = e ]

\* _make_request has returned or raised inside the generator
Receive(t) ==
    /\ pag.state = "fetching"
    /\ req[t].pc \in { "returned", "raised" }
    /\ IF req[t].pc = "raised"
       THEN pag' = RaiseInGenerator(pag, req[t].delivered)
       ELSE \E response \in ServerResponses(server,
                                            pag.requested[Len(pag.requested)].carried,
                                            pag.start_page) :
              LET g == Deliver(pag, response, req[t].transports)
                  items == g.items
              IN pag' = IF items = << >>
                        THEN [ g EXCEPT !.state = "finished" ]
                        ELSE ForLoop(g)
    /\ req' = [ req EXCEPT ![t] = IdleReq ]
    /\ UNCHANGED << limiterVars, retry_handler, rate_limit_info, session, server,
                    sent, other >>

\* a generator that is left running when its consumer goes away
AbandonIgnored(g) == [ g EXCEPT !.stopped_after = Len(g.requested) ]

\* the consumer drops the generator: it is closed at its yield, or never started
Abandon(g) == [ g EXCEPT !.state = "closed", !.stopped_after = Len(g.requested) ]

\* the consumer stops iterating
ConsumerStop ==
    /\ pag.state \in { "created", "suspended" }
    /\ pag.stopped_after = Absent
    /\ pag' = Abandon(pag)
    /\ UNCHANGED << limiterVars, retry_handler, rate_limit_info, session, req,
                    server, sent, other >>

\* next() on a generator that has returned, raised or been closed: StopIteration,
\* no line of _paginate runs
ConsumerNextAfterEnd ==
    /\ pag.state \in { "finished", "raised", "closed" }
    /\ pag.stop_iterations < 1
    /\ pag' = [ pag EXCEPT !.stop_iterations = @ + 1 ]
    /\ UNCHANGED << limiterVars, retry_handler, rate_limit_info, session, req,
                    server, sent, other >>

-----------------------------------------------------------------------------
(* The rate limiter on its own: threads call acquire, responses feed the   *)
(* adaptive hook, time passes.                                             *)


\* configurations the limiter is constructed with (rates in units per tick)
Rates == { Scale, Scale \div 4 }
WindowSizes == { 2 }
MaxTokenChoices == { 1, 2 }
EndpointLimitChoices ==
    { [e \in {} |-> 0], [e \in Endpoints |-> Scale \div 2], [e \in Endpoints |-> 0] }

\* header sets a response may carry
HeaderChoices ==
    { Headers(2, 0, 1, 4, 2, Absent),
      Headers(2, 0, 1, Absent, Absent, Absent),
      Headers(2, 1, 0, 4, 3, 0) }


LimInit ==
    /\ \E rate \in Rates, max_tokens \in MaxTokenChoices, strategy \in Strategies,
          window_size \in WindowSizes, endpoint_limits \in EndpointLimitChoices,
          adaptive \in BOOLEAN :
          rate_limiter = NewRateLimiter(rate, max_tokens, strategy, window_size,
                                        endpoint_limits, adaptive)
    /\ lock = Free
    /\ acq = [ t \in Threads |-> IdleAcq ]
    /\ sleep_left = [ t \in Threads |-> NotSleeping ]
    /\ retry_handler = NewRetryHandler(0, 0, 10)
    /\ rate_limit_info = InitialRateLimitInfo
    /\ session = NoSession
    /\ other = SecondClient
    /\ req = [ t \in Threads |-> IdleReq ]
    /\ pag = NoPaginate
    /\ server = << >>
    /\ sent = NothingSent

\* a thread calls rate_limiter.acquire(endpoint)
CallAcquire(t, endpoint) ==
    /\ acq[t].pc = "idle"
    /\ LET in_flight ==
               Cardinality({ u \in Threads : acq[u].pc \notin {"idle", "done", "fed"} })
       IN rate_limiter.request_count + rate_limiter.swallowed + in_flight
             < MaxRequests
    /\ acq' = [ acq EXCEPT ![t] = [ IdleAcq EXCEPT !.pc = "call",
                                                   !.endpoint = endpoint ] ]
    /\ UNCHANGED << rate_limiter, lock, sleep_left, clientVars >>

\* acquire has returned; the response's headers reach update_from_headers
\* (no lock is taken)
FeedHeaders(t, h) ==
    /\ acq[t].pc = "done"
    /\ rate_limiter' = UpdateFromHeaders(rate_limiter, h)
    /\ acq' = [ acq EXCEPT ![t].pc = "fed" ]
    /\ UNCHANGED << lock, sleep_left, clientVars >>

\* the request succeeded: mark_request_success (no lock is taken)
RequestSucceeded(t) ==
    /\ acq[t].pc = "fed"
    /\ rate_limiter' = MarkRequestSuccess(rate_limiter)
    /\ acq' = [ acq EXCEPT ![t] = IdleAcq ]
    /\ UNCHANGED << lock, sleep_left, clientVars >>

\* the request failed: nothing more reaches the limiter
RequestFailed(t) ==
    /\ acq[t].pc = "fed"
    /\ acq' = [ acq EXCEPT ![t] = IdleAcq ]
    /\ UNCHANGED << rate_limiter, lock, sleep_left, clientVars >>

LimNext ==
    \/ \E t \in Threads, e \in Endpoints \cup {None} : CallAcquire(t, e)
    \/ \E t \in Threads : AcquireEnter(t)
    \/ \E t \in Threads : WakeTokenBucket(t)
    \/ \E t \in Threads : WakeBurstSleep(t)
    \/ \E t \in Threads : WakeReliefSleep(t)
    \/ \E t \in Threads : WakeFixedWindow(t)
    \/ \E t \in Threads : WakeSlidingWindow(t)
    \/ \E t \in Threads, h \in HeaderChoices \cup {NoHeaders} : FeedHeaders(t, h)
    \/ \E t \in Threads : RequestSucceeded(t)
    \/ \E t \in Threads : RequestFailed(t)
    \/ TimePasses
    \/ Tick

LimSpec == LimInit /\ [][LimNext]_vars

\* sleeps end and a thread that can run does run
LimFairness ==
    /\ WF_vars(TimePasses)
    /\ \A t \in Threads :
          /\ WF_vars(AcquireEnter(t))
          /\ WF_vars(WakeTokenBucket(t))
          /\ WF_vars(WakeBurstSleep(t))
          /\ WF_vars(WakeReliefSleep(t))
          /\ WF_vars(WakeFixedWindow(t))
          /\ WF_vars(WakeSlidingWindow(t))

FairLimSpec == LimSpec /\ LimFairness

-----------------------------------------------------------------------------
(* A timed burst: threads call acquire() on a token-bucket limiter that    *)
(* starts with a full bucket, and the time since construction is kept.     *)

BurstInit ==
    /\ \E rate \in Rates, max_tokens \in MaxTokenChoices :
          rate_limiter =
              [ NewRateLimiter(rate, max_tokens, TOKEN_BUCKET, 2, [e \in {} |-> 0], TRUE)
                EXCEPT !.timed = TRUE ]
    /\ lock = Free
    /\ acq = [ t \in Threads |-> IdleAcq ]
    /\ sleep_left = [ t \in Threads |-> NotSleeping ]
    /\ retry_handler = NewRetryHandler(0, 0, 10)
    /\ rate_limit_info = InitialRateLimitInfo
    /\ session = NoSession
    /\ other = SecondClient
    /\ req = [ t \in Threads |-> IdleReq ]
    /\ pag = NoPaginate
    /\ server = << >>
    /\ sent = NothingSent

\* the caller is done with its request and may call acquire again
NextCall(t) ==
    /\ acq[t].pc = "done"
    /\ acq' = [ acq EXCEPT ![t] = IdleAcq ]
    /\ UNCHANGED << rate_limiter, lock, sleep_left, clientVars >>

BurstNext ==
    \/ \E t \in Threads : CallAcquire(t, None)
    \/ \E t \in Threads : AcquireEnter(t)
    \/ \E t \in Threads : WakeTokenBucket(t)
    \/ \E t \in Threads : NextCall(t)
    \/ TimePasses
    \/ Tick

BurstSpec == BurstInit /\ [][BurstNext]_vars

-----------------------------------------------------------------------------
(* The window strategies alone: a limiter that admits two calls per window *)
(* of two ticks, and callers that come back after their call was admitted. *)

WindowInit ==
    /\ \E strategy \in { FIXED_WINDOW, SLIDING_WINDOW } :
          rate_limiter = NewRateLimiter(Scale, 1, strategy, 2, [e \in {} |-> 0], FALSE)
    /\ lock = Free
    /\ acq = [ t \in Threads |-> IdleAcq ]
    /\ sleep_left = [ t \in Threads |-> NotSleeping ]
    /\ retry_handler = NewRetryHandler(0, 0, 10)
    /\ rate_limit_info = InitialRateLimitInfo
    /\ session = NoSession
    /\ other = SecondClient
    /\ req = [ t \in Threads |-> IdleReq ]
    /\ pag = NoPaginate
    /\ server = << >>
    /\ sent = NothingSent

\* a thread calls rate_limiter.acquire(endpoint), for the first time or after
\* an earlier call of its own has returned
WindowCall(t, endpoint) ==
    /\ acq[t].pc \in { "idle", "done" }
    /\ LET in_flight ==
               Cardinality({ u \in Threads : acq[u].pc \notin {"idle", "done"} })
       IN rate_limiter.request_count + in_flight < MaxRequests + 1
    /\ acq' = [ acq EXCEPT ![t] = [ IdleAcq EXCEPT !.pc = "call",
                                                   !.endpoint = endpoint ] ]
    /\ UNCHANGED << rate_limiter, lock, sleep_left, clientVars >>

WindowNext ==
    \/ \E t \in Threads, e \in Endpoints \cup {None} : WindowCall(t, e)
    \/ \E t \in Threads : AcquireEnter(t)
    \/ \E t \in Threads : WakeFixedWindow(t)
    \/ \E t \in Threads : WakeSlidingWindow(t)
    \/ TimePasses
    \/ Tick

WindowSpec == WindowInit /\ [][WindowNext]_vars

-----------------------------------------------------------------------------
(* The client: requests through _make_request, the limiter it owns, time.  *)

\* tokens left in the bucket by the traffic before the requests looked at
PriorTokens == { 0, Scale, 60 * Scale }

\* JustCallClient.__init__, then earlier traffic that used up tokens (the bucket
\* is no longer the one of construction: refilled)
Init ==
    /\ \E tokens \in PriorTokens :
          rate_limiter =
              [ NewRateLimiter(Scale \div TicksPerSecond, 60, TOKEN_BUCKET,
                               60 * TicksPerSecond, [e \in {} |-> 0], TRUE)
                EXCEPT !.tokens = tokens, !.refilled = TRUE ]
    /\ lock = Free
    /\ acq = [ t \in Threads |-> IdleAcq ]
    /\ sleep_left = [ t \in Threads |-> NotSleeping ]
    /\ \E max_retries \in 0..MaxRetries :
          retry_handler = NewRetryHandler(max_retries, 2 * TicksPerSecond, 15)
    /\ rate_limit_info = InitialRateLimitInfo
    /\ session = NoSession
    /\ other = SecondClient
    /\ req = [ t \in Threads |-> IdleReq ]
    /\ pag = NoPaginate
    /\ server = << >>
    /\ sent = NothingSent

\* a resource method, or a direct user of the retry handler, issues one request
Call(t, use_rl, expect_json) ==
    /\ req[t].calls < MaxCalls
    /\ MakeRequest(t, use_rl, expect_json)
    /\ UNCHANGED pagVars

Next ==
    \/ \E t \in Callers, use_rl \in BOOLEAN, expect_json \in BOOLEAN :
          Call(t, use_rl, expect_json)
    \/ \E t \in Threads : AcquireEnter(t)
    \/ \E t \in Threads : WakeTokenBucket(t)
    \/ \E t \in Threads : WakeBurstSleep(t)
    \/ \E t \in Threads : WakeReliefSleep(t)
    \/ \E t \in Threads, o \in ServerOutcomes : Transport(t, o)
    \/ \E t \in Threads : WakeAdjust(t)
    \/ \E t \in Threads : WakeBackoff(t)
    \/ TimePasses
    \/ Tick

Spec == Init /\ [][Next]_vars

-----------------------------------------------------------------------------
(* One request against a server that answers the first attempt with 429,   *)
(* burst-remaining 0 and burst-reset 5, and the second with 200; the time  *)
(* since construction is kept.                                             *)

Throttled5 == Outcome("response", 429, TRUE, Headers(2, 0, 5, Absent, Absent, Absent))
Ok200 == Outcome("response", 200, TRUE, NoHeaders)

ScenarioInit ==
    /\ \E tokens \in PriorTokens :
          rate_limiter =
              [ NewRateLimiter(Scale \div TicksPerSecond, 60, TOKEN_BUCKET,
                               60 * TicksPerSecond, [e \in {} |-> 0], TRUE)
                EXCEPT !.tokens = tokens, !.refilled = TRUE, !.timed = TRUE ]
    /\ lock = Free
    /\ acq = [ t \in Threads |-> IdleAcq ]
    /\ sleep_left = [ t \in Threads |-> NotSleeping ]
    /\ retry_handler = NewRetryHandler(MaxRetries, 2 * TicksPerSecond, 15)
    /\ rate_limit_info = InitialRateLimitInfo
    /\ session = NoSession
    /\ other = SecondClient
    /\ req = [ t \in Threads |-> IdleReq ]
    /\ pag = NoPaginate
    /\ server = << >>
    /\ sent = NothingSent

\* the server's answer to the attempt being made
ScenarioTransport(t) ==
    Transport(t, IF req[t].transports = 0 THEN Throttled5 ELSE Ok200)

ScenarioNext ==
    \/ \E t \in Callers, use_rl \in BOOLEAN : Call(t, use_rl, TRUE)
    \/ \E t \in Threads : AcquireEnter(t)
    \/ \E t \in Threads : WakeTokenBucket(t)
    \/ \E t \in Threads : WakeBurstSleep(t)
    \/ \E t \in Threads : WakeReliefSleep(t)
    \/ \E t \in Threads : ScenarioTransport(t)
    \/ \E t \in Threads : WakeAdjust(t)
    \/ \E t \in Threads : WakeBackoff(t)
    \/ TimePasses

ScenarioSpec == ScenarioInit /\ [][ScenarioNext]_vars

-----------------------------------------------------------------------------
(* Requests of the client under retry configurations of its user's choice, *)
(* installed between requests, and under the configuration the client      *)
(* installs itself after a 429 with a long burst reset.                    *)

\* RetryConfig values: retry_delay 2 s or 50 s, backoff_factor 1.5 or 2.0
RetryConfigs ==
    { [ max_retries |-> MaxRetries + 1, retry_delay |-> d, backoff_factor |-> f,
        retry_codes |-> DEFAULT_RETRY_CODES ] :
      d \in { 2 * TicksPerSecond, 50 * TicksPerSecond }, f \in { 15, 20 } }

\* RetryHandler.update_config, called between two requests
UpdateConfig(config) ==
    /\ \A t \in Callers : req[t].pc \in { "idle", "returned", "raised" }
    /\ retry_handler.config # config
    /\ retry_handler' = [ retry_handler EXCEPT !.config = config ]
    /\ UNCHANGED << limiterVars, rate_limit_info, session, req, pagVars, sent, other >>

\* a 429 whose burst reset is 200 s, a 503, a 200
BackoffOutcomes ==
    { Outcome("response", 429, TRUE, Headers(2, 0, 200, Absent, Absent, Absent)),
      Outcome("response", 503, TRUE, NoHeaders),
      Outcome("response", 200, TRUE, NoHeaders) }

BackoffInit ==
    /\ \E tokens \in PriorTokens :
          rate_limiter =
              [ NewRateLimiter(Scale \div TicksPerSecond, 60, TOKEN_BUCKET,
                               60 * TicksPerSecond, [e \in {} |-> 0], TRUE)
                EXCEPT !.tokens = tokens, !.refilled = TRUE ]
    /\ lock = Free
    /\ acq = [ t \in Threads |-> IdleAcq ]
    /\ sleep_left = [ t \in Threads |-> NotSleeping ]
    /\ retry_handler = NewRetryHandler(MaxRetries + 1, 2 * TicksPerSecond, 15)
    /\ rate_limit_info = InitialRateLimitInfo
    /\ session = NoSession
    /\ other = SecondClient
    /\ req = [ t \in Threads |-> IdleReq ]
    /\ pag = NoPaginate
    /\ server = << >>
    /\ sent = NothingSent

BackoffNext ==
    \/ \E config \in RetryConfigs : UpdateConfig(config)
    \/ \E t \in Callers : Call(t, FALSE, TRUE)
    \/ \E t \in Threads : AcquireEnter(t)
    \/ \E t \in Threads : WakeTokenBucket(t)
    \/ \E t \in Threads, o \in BackoffOutcomes : Transport(t, o)
    \/ \E t \in Threads : WakeAdjust(t)
    \/ \E t \in Threads : WakeBackoff(t)
    \/ TimePasses

BackoffSpec == BackoffInit /\ [][BackoffNext]_vars

-----------------------------------------------------------------------------
(* Two clients of one process: the requests of the first, attempt by       *)
(* attempt, and the attempts of the second in between.                     *)

\* what the server answers to either client
TwoClientOutcomes ==
    { Outcome("response", 429, TRUE, ThrottleHeaders),
      Outcome("response", 200, TRUE, OkHeaders) }

TwoClientNext ==
    \/ \E t \in Callers, use_rl \in BOOLEAN : Call(t, use_rl, TRUE)
    \/ \E t \in Threads : AcquireEnter(t)
    \/ \E t \in Threads : WakeTokenBucket(t)
    \/ \E t \in Threads : WakeBurstSleep(t)
    \/ \E t \in Threads : WakeReliefSleep(t)
    \/ \E t \in Threads, o \in TwoClientOutcomes : Transport(t, o)
    \/ \E t \in Threads : WakeAdjust(t)
    \/ \E t \in Threads : WakeBackoff(t)
    \/ TimePasses
    \/ \E o \in TwoClientOutcomes : OtherRequest(o)

TwoClientSpec == Init /\ [][TwoClientNext]_vars

-----------------------------------------------------------------------------
(* The arguments of one request, from the call of _make_request to the     *)
(* call of session.request                                                 *)

\* dicts a caller passes as params or as json
ArgumentChoices ==
    { PyDict(<< >>),
      PyDict(<< PyStr("x"), PyInt(1) >>),
      PyDict(<< PyBool(TRUE) >>),
      PyDict(<< PyBool(FALSE), PyDate(2024, 1, 2) >>),
      PyDict(<< PyDateTime(2024, 1, 2, 3, 4, 5) >>),
      PyDict(<< PyDict(<< PyBool(TRUE), PyDate(2024, 11, 30) >>) >>),
      PyDict(<< PyList(<< PyDate(2024, 1, 2), PyDateTime(2024, 1, 2, 3, 4, 5) >>) >>),
      PyDict(<< PyList(<< PyDict(<< PyBool(FALSE) >>) >>) >>),
      PyDict(<< PyList(<< PyBool(TRUE) >>) >>),
      PyDict(<< PyList(<< PyList(<< PyDate(2024, 1, 2) >>) >>) >>) }

ParamInit ==
    /\ rate_limiter = NewRateLimiter(Scale \div TicksPerSecond, 60, TOKEN_BUCKET,
                                     60 * TicksPerSecond, [e \in {} |-> 0], TRUE)
    /\ lock = Free
    /\ acq = [ t \in Threads |-> IdleAcq ]
    /\ sleep_left = [ t \in Threads |-> NotSleeping ]
    /\ retry_handler = NewRetryHandler(0, 2 * TicksPerSecond, 15)
    /\ rate_limit_info = InitialRateLimitInfo
    /\ session = NoSession
    /\ other = SecondClient
    /\ req = [ t \in Threads |-> IdleReq ]
    /\ pag = NoPaginate
    /\ server = << >>
    /\ \E params \in ArgumentChoices \cup { PyNone },
          json \in ArgumentChoices \cup { PyNone } :
          sent = RequestWith(params, json)

ParamNext ==
    \/ PrepareParams
    \/ SessionRequest

ParamSpec == ParamInit /\ [][ParamNext]_vars

-----------------------------------------------------------------------------
(* The client used as a context manager by one thread: the scope is        *)
(* entered and left, requests are made inside and outside of it.           *)

ScopeInit ==
    /\ rate_limiter = NewRateLimiter(Scale \div TicksPerSecond, 60, TOKEN_BUCKET,
                                     60 * TicksPerSecond, [e \in {} |-> 0], TRUE)
    /\ lock = Free
    /\ acq = [ t \in Threads |-> IdleAcq ]
    /\ sleep_left = [ t \in Threads |-> NotSleeping ]
    /\ \E max_retries \in { 0, MaxRetries } :
          retry_handler = NewRetryHandler(max_retries, 2 * TicksPerSecond, 15)
    /\ rate_limit_info = InitialRateLimitInfo
    /\ session = NoSession
    /\ other = SecondClient
    /\ req = [ t \in Threads |-> IdleReq ]
    /\ pag = NoPaginate
    /\ server = << >>
    /\ sent = NothingSent

\* a request made while the client may create one more session
ScopeCall(t, expect_json) ==
    /\ session.created < MaxSessions
    /\ Call(t, FALSE, expect_json)

ScopeNext ==
    \/ \E t \in Callers : Enter(t)
    \/ \E t \in Callers : Exit(t)
    \/ \E t \in Callers, expect_json \in BOOLEAN : ScopeCall(t, expect_json)
    \/ \E t \in Threads : AcquireEnter(t)
    \/ \E t \in Threads, o \in ServerOutcomes : Transport(t, o)
    \/ \E t \in Threads : WakeAdjust(t)
    \/ \E t \in Threads : WakeBackoff(t)
    \/ TimePasses

ScopeSpec == ScopeInit /\ [][ScopeNext]_vars

-----------------------------------------------------------------------------
(* One _paginate iteration over a paginated endpoint, driven by a consumer *)

\* the sizes of the pages the endpoint holds, in page order
PageLayouts ==
    { << >>, << 1 >>, << 2 >>, << 1, 1 >>, << 2, 1 >>, << 1, 2 >> }

RECURSIVE PagesOf(_, _)
\* the pages of a layout, their items numbered first + 1, first + 2, ... in server order
PagesOf(layout, first) ==
    IF layout = << >> THEN << >>
    ELSE << [ j \in 1..Head(layout) |-> first + j ] >>
         \o PagesOf(Tail(layout), first + Head(layout))

\* the max_items a caller passes: None, 0, 1, 2
MaxItemsChoices == { Absent } \cup 0..2

\* what a page request meets: a JSON page, an internal error, a missing resource
PageOutcomes ==
    { Outcome("response", 200, TRUE, NoHeaders),
      Outcome("response", 500, TRUE, NoHeaders),
      Outcome("response", 404, TRUE, NoHeaders) }

PagInit ==
    /\ rate_limiter = NewRateLimiter(Scale \div TicksPerSecond, 60, TOKEN_BUCKET,
                                     60 * TicksPerSecond, [e \in {} |-> 0], TRUE)
    /\ lock = Free
    /\ acq = [ t \in Threads |-> IdleAcq ]
    /\ sleep_left = [ t \in Threads |-> NotSleeping ]
    /\ retry_handler = NewRetryHandler(MaxRetries, 2 * TicksPerSecond, 15)
    /\ rate_limit_info = InitialRateLimitInfo
    /\ session = NoSession
    /\ other = SecondClient
    /\ req = [ t \in Threads |-> IdleReq ]
    /\ \E method \in { "GET", "POST" }, has_params \in BOOLEAN, has_json \in BOOLEAN,
          max_items \in MaxItemsChoices, start_page \in { 0, 1 } :
          pag = NewPaginate(method, has_params, has_json, max_items, start_page)
    /\ \E layout \in PageLayouts : server = PagesOf(layout, 0)
    /\ sent = NothingSent

PagNext ==
    \/ \E t \in Callers : ConsumerNext(t)
    \/ ConsumerNextAfterEnd
    \/ ConsumerStop
    \/ \E t \in Callers : Receive(t)
    \/ \E t \in Threads : AcquireEnter(t)
    \/ \E t \in Threads, o \in PageOutcomes : Transport(t, o)
    \/ \E t \in Threads : WakeBackoff(t)
    \/ TimePasses

PagSpec == PagInit /\ [][PagNext]_vars

-----------------------------------------------------------------------------
(* Claims about _make_request and execute_with_retry, checked under Spec   *)

\* the statuses of all failures of the current execute_with_retry call are retryable
AllRetryable(fr) ==
    \A i \in 1..Len(fr.log) :
        fr.log[i].status_code \in retry_handler.config.retry_codes

(* C1: in _make_request every transport call (session.request) is preceded, *)
(* within the same attempt, by a completed rate_limiter.acquire: on the     *)
(* first attempt and on every retry, the transport calls made so far never  *)
(* outnumber the completed acquire calls, and no attempt acquires twice.    *)
C1_AdmissionBeforeTransport ==
    \A t \in Threads :
        /\ req[t].transports <= acq[t].completed
        /\ acq[t].completed <= req[t].func_calls

C1_Witness ==
    req[1].transports = 2 /\ req[1].retry_count = 1 /\ acq[1].completed = 2

(* C2: with max_retries = R and an operation that fails on each call with a *)
(* status in retry_codes, execute_with_retry invokes the operation exactly  *)
(* R + 1 times and then raises.                                             *)
C2_AttemptsAreRetriesPlusOne ==
    \A t \in Threads :
        (req[t].pc = "raised" /\ AllRetryable(req[t]))
            => req[t].func_calls = retry_handler.config.max_retries + 1

C4_LastExceptionDelivered ==
    \A t \in Threads :
        req[t].pc = "raised"
        => /\ req[t].log # << >>
           /\ req[t].delivered = req[t].log[Len(req[t].log)]
           /\ req[t].delivered.attempt = req[t].func_calls

C4_Witness ==
    /\ req[1].pc = "raised"
    /\ Len(req[1].log) = 2
    /\ AllRetryable(req[1])
    /\ req[1].log[1].status_code = 500
    /\ req[1].delivered.status_code = 503

-----------------------------------------------------------------------------
(* Claims about _paginate, checked under PagSpec                           *)

\* every page request so far carried the page number it was made for
PagesCarried ==
    \A i \in 1..Len(pag.requested) : pag.requested[i].carried = pag.requested[i].page

(* C5: when the endpoint has returned k non-empty pages followed by an      *)
(* empty page to an iteration without max_items, the iteration is over, the *)
(* consumer has received exactly the concatenation of the k pages' items in *)
(* server order, and exactly k + 1 page requests were issued.               *)
C5_AllPagesInOrder ==
    LET n == Len(pag.received) IN
    ( /\ pag.max_items = Absent
      /\ n >= 1
      /\ pag.received[n] = << >>
      /\ \A i \in 1..(n - 1) : pag.received[i] # << >> )
    => /\ pag.state = "finished"
       /\ pag.yielded = Concat(pag.received)
       /\ Len(pag.requested) = n

C5_Witness ==
    /\ pag.state = "finished"
    /\ pag.max_items = Absent
    /\ Len(pag.received) = 3
    /\ pag.received[3] = << >>
    /\ pag.yielded = << 1, 2, 3 >>
    /\ Len(pag.requested) = 3

(* C6: with max_items = m >= 1 at most the number of items available, an    *)
(* iteration that ends has handed over exactly m items, and no page request *)
(* is issued once the m-th item has been yielded, be it at the end of a     *)
(* page or in the middle of one.                                            *)
C6_ExactlyMaxItemsThenNoRequest ==
    ( /\ pag.max_items # Absent
      /\ pag.max_items >= 1
      /\ pag.max_items <= Len(Concat(server))
      /\ PagesCarried )
    => /\ pag.state = "finished" => Len(pag.yielded) = pag.max_items
       /\ \A i \in 1..Len(pag.requested) :
              pag.requested[i].yielded_before < pag.max_items

(* C7: for every integer max_items >= 0 the caller supplies, the number of  *)
(* items yielded so far never exceeds max_items.                            *)
C7_NeverMoreThanMaxItems ==
    pag.max_items # Absent => Len(pag.yielded) <= pag.max_items

(* C8: the pages asked for are start_page, start_page + 1, ... without gap  *)
(* or repeat, one _make_request call per page, and the request for the next *)
(* page is issued only after the response to the previous one was received  *)
(* and all of its items were handed to the consumer.                        *)
C8_PagesInOrderOneAtATime ==
    /\ \A i \in 1..Len(pag.requested) :
          /\ pag.requested[i].page = pag.start_page + i - 1
          /\ i - 1 <= Len(pag.received)
          /\ pag.requested[i].yielded_before
                = Len(Concat(SubSeq(pag.received, 1, i - 1)))
    /\ Len(pag.received) <= Len(pag.requested)
    /\ pag.state = "fetching" <=> req[1].pc # "idle"

C8_Witness ==
    /\ Len(pag.requested) = 3
    /\ pag.requested[3].page = pag.start_page + 2
    /\ pag.requested[3].yielded_before = 3
    /\ pag.state = "fetching"

(* C9: page fetches are driven by consumption only: a request is in flight  *)
(* only while the consumer waits for an item and every item fetched so far  *)
(* has been handed over, and once the consumer has stopped iterating no     *)
(* further _make_request call is issued for the iteration.                  *)
C9_FetchOnlyOnDemand ==
    /\ pag.state = "fetching" => Len(pag.yielded) = Len(Concat(pag.received))
    /\ pag.stopped_after # Absent
       => /\ Len(pag.requested) = pag.stopped_after
          /\ \A t \in Threads : req[t].pc = "idle"

C9_Witness ==
    /\ pag.state = "closed"
    /\ pag.stopped_after = 1
    /\ Len(pag.yielded) = 1
    /\ Len(server) = 2

\* C34: a page whose fetch needed several transport attempts is received once
\* and its items are yielded once: what has been yielded is the beginning of the
\* concatenation of the pages received, one reception per fetch whatever the
\* number of its attempts; items_returned counts the items yielded (the last
\* one is counted when the generator resumes); and the page number has
\* advanced once per page received, not once per attempt.
C34_RetriedPageYieldedOnce ==
    /\ Len(pag.attempts) = Len(pag.received)
    /\ Len(pag.yielded) <= Len(Concat(pag.received))
    /\ pag.yielded = SubSeq(Concat(pag.received), 1, Len(pag.yielded))
    /\ pag.items_returned \in { Len(pag.yielded) - 1, Len(pag.yielded) }
    /\ pag.state \in { "fetching", "finished", "raised" }
          => pag.items_returned = Len(pag.yielded)
    /\ pag.state = "fetching"
          => /\ pag.page = pag.start_page + Len(pag.received)
             /\ Len(pag.requested) = Len(pag.received) + 1

\* the first page came with the second transport attempt, the second page with
\* the first, and the three items of the two pages were yielded once each
C34_Witness ==
    /\ pag.state = "finished"
    /\ Len(pag.received) = 3
    /\ pag.attempts[1] = 2
    /\ pag.attempts[2] = 1
    /\ pag.received[1] = << 1, 2 >>
    /\ pag.yielded = << 1, 2, 3 >>
    /\ pag.items_returned = 3
    /\ pag.page = pag.start_page + 2

\* C38: if _make_request raises while page p is fetched, the exception reaches
\* the consumer at that point, the items of all pages before p have been
\* delivered exactly once, and the iteration is over: no further page is
\* requested and resuming the iterator yields no more items
C38_RaisedFetchEndsIteration ==
    [][ /\ ( /\ pag.state = "fetching" /\ pag'.state # "fetching"
             /\ \E t \in Callers : req[t].pc = "raised" )
           => /\ pag'.state = "raised"
              /\ \E t \in Callers : pag'.exception = req[t].delivered
              /\ pag'.exception # NoException
              /\ pag'.received = pag.received
              /\ Len(pag'.requested) = Len(pag'.received) + 1
              /\ pag'.page = pag'.start_page + Len(pag'.received)
              /\ pag'.yielded = Concat(pag'.received)
              /\ pag'.items_returned = Len(pag'.yielded)
        /\ pag.state = "raised"
           => /\ pag'.state = "raised"
              /\ pag'.yielded = pag.yielded
              /\ pag'.requested = pag.requested
              /\ pag'.page = pag.page
              /\ req' = req
              /\ sent' = sent
      ]_vars

\* the fetch of the second page raised after the first page's two items had been
\* yielded, and the consumer has called next() once more
C38_Witness ==
    /\ pag.state = "raised"
    /\ pag.exception # NoException
    /\ pag.received = << << 1, 2 >> >>
    /\ pag.yielded = << 1, 2 >>
    /\ Len(pag.requested) = 2
    /\ pag.stop_iterations = 1

\* C40: _paginate leaves the params and json mappings of its caller as they
\* were passed, without an entry under page_key, however many pages have been
\* fetched: the page value goes into a copy made for the request
C40_CallerMappingsUnchanged ==
    /\ pag.params_page = Absent
    /\ pag.caller_json_page = Absent

\* C33: every request of a _paginate iteration carries the current page number,
\* in the query parameters when the method is GET and in the JSON body
\* otherwise, whatever method, params and json the caller passed (params=None
\* and json=None included); so two successive page requests of an iteration
\* never carry the same page value.
C33_EveryRequestCarriesItsPage ==
    /\ \A i \in 1..Len(pag.requested) :
          /\ pag.requested[i].carried = pag.requested[i].page
          /\ i > 1 => pag.requested[i].carried # pag.requested[i - 1].carried
    /\ pag.state = "fetching"
          => IF pag.method = "GET"
             THEN pag.params_page = pag.page
             ELSE pag.json_page = pag.page

-----------------------------------------------------------------------------
(* Claims about the rate limiter, checked under LimSpec                    *)

(* C11: when the admission logic inside acquire raises (the division by a  *)
(* rate of 0 in the token loop), acquire swallows the exception and returns *)
(* normally: the caller is admitted without having slept, and the lock is   *)
(* no longer held by it, so later acquire calls can enter.                  *)
C11_ErrorAdmitsAndReleases ==
    \A t \in Threads :
        acq[t].error
        => /\ acq[t].pc \in { "done", "fed" }
           /\ acq[t].completed = 1
           /\ ~acq[t].slept
           /\ sleep_left[t] = NotSleeping
           /\ lock # t

C11_Witness ==
    /\ acq[1].error
    /\ acq[1].pc = "done"
    /\ rate_limiter.strategy = TOKEN_BUCKET
    /\ rate_limiter.tokens <= 0
    /\ acq[2].pc = "done"
    /\ ~acq[2].error
    /\ lock = Free

\* thread t is inside a time.sleep of acquire
SleepingInAcquire(t) ==
    acq[t].pc \in { "tb_sleep", "burst_sleep", "relief_sleep", "fw_sleep", "sw_sleep" }

(* C12: no caller holds the limiter's lock while sleeping: whenever a       *)
(* thread is inside a time.sleep of acquire the lock is free, so another    *)
(* thread calling acquire can enter.                                        *)
C12_LockFreeWhileSleeping ==
    \A t \in Threads : SleepingInAcquire(t) => lock = Free

\* no admission can raise: the default rate and every endpoint rate are positive
RatesPositive ==
    /\ rate_limiter.rate > 0
    /\ \A e \in DOMAIN rate_limiter.endpoint_limits : rate_limiter.endpoint_limits[e] > 0

(* C13, as stated: in token-bucket mode a caller's check for a token and   *)
(* its consumption are atomic with respect to the other callers, so from T *)
(* whole tokens and with no refill in between at most T callers are        *)
(* admitted without waiting.                                               *)
C13_AtMostTUnwaited ==
    (rate_limiter.strategy = TOKEN_BUCKET /\ ~rate_limiter.refilled)
    => rate_limiter.unwaited <= rate_limiter.initial_tokens

(* C13, amended: the same, for a limiter whose rates are all positive (an  *)
(* admission that raises is let through without a token); every unwaited   *)
(* admission then took exactly one whole token.                            *)
C13_AtMostTUnwaitedPositiveRates ==
    (rate_limiter.strategy = TOKEN_BUCKET /\ ~rate_limiter.refilled /\ RatesPositive)
    => /\ rate_limiter.unwaited <= rate_limiter.initial_tokens
       /\ rate_limiter.tokens
            = (rate_limiter.initial_tokens - rate_limiter.unwaited) * Scale

C13_Witness ==
    /\ rate_limiter.strategy = TOKEN_BUCKET
    /\ ~rate_limiter.refilled
    /\ RatesPositive
    /\ rate_limiter.initial_tokens = 1
    /\ rate_limiter.unwaited = 1
    /\ acq[1].pc = "done"
    /\ acq[2].pc = "tb_sleep"

\* the limiter's shared state named by the locking rule
SharedState(rl) ==
    << rl.tokens, rl.rate, rl.max_tokens,
       rl.burst_limit, rl.burst_remaining, rl.burst_reset,
       rl.global_limit, rl.global_remaining, rl.global_reset,
       rl.consecutive_rate_limit_errors, rl.backoff_multiplier >>

\* C14: every update of the limiter's shared state is made under the limiter's
\* lock, so while a thread is inside acquire (it holds the lock) the shared
\* state changes only by that thread's own steps; update_from_headers and
\* mark_request_success of another thread cannot interleave with it.
C14_NoUpdateDuringAcquire ==
    [][ \A u \in Threads :
           (lock = u /\ SharedState(rate_limiter') # SharedState(rate_limiter))
           => acq'[u] # acq[u] ]_vars

\* responses that report the burst quota used up, to be reset in 10 seconds,
\* without and with the general quota
BurstExhaustedResponses ==
    { Headers(2, 0, 10, Absent, Absent, Absent), Headers(2, 0, 10, 4, 2, 0) }

\* C16: from every reachable state of an adaptive limiter, update_from_headers
\* fed a response with burst-remaining = 0 and burst-reset = 10 leaves both the
\* rate and max_tokens strictly lower than they were before the update.
C16_HeadersTightenStrictly ==
    \A h \in BurstExhaustedResponses :
        rate_limiter.adaptive
        => LET updated == UpdateFromHeaders(rate_limiter, h)
           IN /\ updated.rate < rate_limiter.rate
              /\ updated.max_tokens < rate_limiter.max_tokens

\* values of consecutive_rate_limit_errors, up to beyond the one where the
\* multiplier of the wait reaches its cap
ErrorCounts == 0..20

\* C28: a token-bucket acquire that finds the limiter adaptive with the last
\* observed burst_remaining = 0 and burst_reset = r > 0 goes to sleep for at
\* least r * buffer_factor, whatever the consecutive-error counter holds, and
\* leaves that sleep only when it is over, for the pressure-relief sleep that
\* precedes its return; the wait computed from such a state is at least
\* r * buffer_factor for every value the counter can take.
C28_BurstWaitAtLeastBufferedReset ==
    /\ [][ \A t \in Threads :
             /\ (/\ acq[t].pc = "call" /\ acq'[t].pc # "call"
                 /\ rate_limiter.strategy = TOKEN_BUCKET
                 /\ rate_limiter.adaptive
                 /\ rate_limiter.burst_remaining = 0
                 /\ rate_limiter.burst_reset > 0)
                => /\ acq'[t].pc = "burst_sleep"
                   /\ sleep_left'[t] * BufferDen
                         >= rate_limiter.burst_reset * TicksPerSecond * BufferNum
             /\ (acq[t].pc = "burst_sleep" /\ acq'[t].pc # "burst_sleep")
                => sleep_left[t] = 0 /\ acq'[t].pc = "relief_sleep" ]_vars
    /\ [](rate_limiter.burst_remaining = 0 /\ rate_limiter.burst_reset > 0
          => \A k \in ErrorCounts :
                BurstWait([ rate_limiter EXCEPT !.consecutive_rate_limit_errors = k ])
                    * BufferDen
                  >= rate_limiter.burst_reset * TicksPerSecond * BufferNum)

\* an acquire is in that sleep after a throttled response
C28_Witness ==
    \E t \in Threads :
        /\ acq[t].pc = "burst_sleep"
        /\ sleep_left[t] > 0
        /\ rate_limiter.burst_remaining = 0
        /\ rate_limiter.consecutive_rate_limit_errors = 1

\* C29: in every reachable state backoff_multiplier lies between 1.0 and 10.0
\* (10 and 100 tenths); an acquire that finds k > 0 consecutive throttles
\* stores and applies min(10.0, 1.0 + 0.5 * k); and that multiplier is
\* non-decreasing in k: each further throttle raises it until it is 10.0,
\* where it stays.
C29_MultiplierBoundedAndMonotone ==
    /\ [](/\ rate_limiter.backoff_multiplier >= 10
          /\ rate_limiter.backoff_multiplier <= 100
          /\ \A k \in ErrorCounts \ { 0 } :
                /\ BackoffMultiplier(k) >= 10
                /\ BackoffMultiplier(k) <= 100
                /\ BackoffMultiplier(k + 1) >= BackoffMultiplier(k)
                /\ BackoffMultiplier(k) < 100
                      => BackoffMultiplier(k + 1) > BackoffMultiplier(k))
    /\ [][ \A t \in Threads :
             (/\ acq[t].pc = "call" /\ acq'[t].pc = "burst_sleep"
              /\ rate_limiter.consecutive_rate_limit_errors > 0)
             => LET k == rate_limiter.consecutive_rate_limit_errors IN
                /\ rate_limiter'.backoff_multiplier = BackoffMultiplier(k)
                /\ rate_limiter'.backoff_multiplier > rate_limiter.backoff_multiplier
                      \/ rate_limiter.backoff_multiplier = BackoffMultiplier(k)
                /\ sleep_left'[t] * BufferDen
                      >= rate_limiter.burst_reset * BackoffMultiplier(k) * BufferNum ]_vars

\* an acquire sleeps with the multiplier of one throttle, 1.5, stored
C29_Witness ==
    \E t \in Threads :
        /\ acq[t].pc = "burst_sleep"
        /\ rate_limiter.consecutive_rate_limit_errors = 1
        /\ rate_limiter.backoff_multiplier = 15

\* header sets that report burst_remaining: with the burst limit and the burst
\* reset, and without one of them
BurstReports ==
    HeaderChoices
        \cup { Headers(Absent, 1, 0, Absent, Absent, Absent),
               Headers(Absent, 0, 1, Absent, Absent, Absent),
               Headers(2, 1, Absent, 4, 3, 0) }

\* the three burst headers are present
HasBurstHeaders(h) ==
    h.burst_limit # Absent /\ h.burst_remaining # Absent /\ h.burst_reset # Absent

Throttled(rl) == rl.burst_remaining = 0 /\ rl.burst_reset > 0

\* burst reports, among them an exhausted quota that resets at once
QuotaReports ==
    BurstReports \cup { Headers(2, 0, 0, 4, 2, Absent) }

\* a token-bucket acquire entered in the throttled state sleeps at least the
\* reported reset, then the relief wait, and returns with tokens = 1, no token taken
ThrottledAcquireWaits ==
    \A t \in Threads :
        /\ ( /\ acq[t].pc = "call" /\ acq'[t].pc # "call"
             /\ rate_limiter.strategy = TOKEN_BUCKET
             /\ Throttled(rate_limiter) )
           => /\ acq'[t].pc = "burst_sleep"
              /\ sleep_left'[t] >= rate_limiter.burst_reset * TicksPerSecond
              /\ rate_limiter'.tokens = rate_limiter.tokens
        /\ ( acq[t].pc = "burst_sleep" /\ acq'[t].pc # "burst_sleep" )
           => /\ sleep_left[t] = 0
              /\ acq'[t].pc = "relief_sleep"
              /\ rate_limiter'.tokens = rate_limiter.tokens
        /\ ( acq[t].pc = "relief_sleep" /\ acq'[t].pc # "relief_sleep" )
           => /\ sleep_left[t] = 0
              /\ acq'[t].pc = "done"
              /\ rate_limiter'.tokens = Scale

\* the throttled state ends only on a step that is an update_from_headers
\* carrying the three burst headers
ThrottleEndsOnlyOnReport ==
    ( Throttled(rate_limiter) /\ ~Throttled(rate_limiter') )
       => \E h \in QuotaReports :
             /\ HasBurstHeaders(h)
             /\ rate_limiter' = UpdateFromHeaders(rate_limiter, h)

\* C37 as stated: once burst_remaining = 0 with burst_reset > 0 is recorded,
\* every token-bucket acquire performs the full reset wait and returns without
\* consuming a token, whatever time has passed, and the state clears only when
\* an update_from_headers reports burst_remaining > 0
C37_ThrottleClearsOnlyOnRemaining ==
    /\ [][ ThrottledAcquireWaits /\ ThrottleEndsOnlyOnReport ]_vars
    /\ [](\A h \in QuotaReports :
             ( Throttled(rate_limiter)
               /\ ~Throttled(UpdateFromHeaders(rate_limiter, h)) )
                => h.burst_remaining > 0)

\* C37, amended: the same, except that the state clears when an
\* update_from_headers carrying the three burst headers reports
\* burst_remaining > 0 or a burst_reset that is not positive
C37_ThrottleClearsOnlyOnFullReport ==
    /\ [][ ThrottledAcquireWaits /\ ThrottleEndsOnlyOnReport ]_vars
    /\ [](\A h \in QuotaReports :
             ( Throttled(rate_limiter)
               /\ ~Throttled(UpdateFromHeaders(rate_limiter, h)) )
                => /\ HasBurstHeaders(h)
                   /\ h.burst_remaining > 0 \/ h.burst_reset <= 0)

\* a second acquire has gone through the burst wait and the relief wait and has
\* returned with tokens = 1, the limiter still throttled; a report of an
\* exhausted quota that resets at once would clear the state
C37_Witness ==
    \E t, u \in Threads :
        /\ t # u
        /\ acq[u].pc = "fed"
        /\ acq[t].pc = "done" /\ acq[t].slept
        /\ rate_limiter.strategy = TOKEN_BUCKET
        /\ Throttled(rate_limiter)
        /\ rate_limiter.tokens = Scale
        /\ rate_limiter.request_count = 2
        /\ ~Throttled(UpdateFromHeaders(rate_limiter, Headers(2, 0, 0, 4, 2, Absent)))

\* header values a server can report: those above, and a global remaining that
\* is higher than the global limit reported with it
ServerReportedHeaders ==
    HeaderChoices \cup BurstExhaustedResponses
        \cup { Headers(2, 0, 1, 2, 4, Absent), Headers(2, 3, 0, 2, 4, 0) }

\* C26: from every reachable state of the limiter, update_from_headers with any
\* server-reported header values leaves rate and max_tokens no higher than
\* they were: adaptive updates tighten the limiter and never relax it.
C26_HeadersNeverRaiseLimits ==
    \A h \in ServerReportedHeaders :
        LET updated == UpdateFromHeaders(rate_limiter, h)
        IN /\ updated.rate <= rate_limiter.rate
           /\ updated.max_tokens <= rate_limiter.max_tokens

\* C36: in token-bucket mode, in every reachable state, 0 <= tokens <=
\* max_tokens, also after an adaptive update has lowered max_tokens
C36_TokensWithinBucket ==
    rate_limiter.strategy = TOKEN_BUCKET
        => /\ 0 <= rate_limiter.tokens
           /\ rate_limiter.tokens <= rate_limiter.max_tokens * Scale

-----------------------------------------------------------------------------
(* Claims about the window strategies, checked under LimSpec and WindowSpec *)

\* the admitted calls of a key within the last window_size seconds
CountInWindow(rl, key) ==
    Cardinality({ i \in 1..Len(rl.request_timestamps[key]) :
                    rl.request_timestamps[key][i] < rl.window_size })

\* the rate that applies to a key
RateOfKey(rl, key) == IF key = "global" THEN rl.rate ELSE RateFor(rl, key)

\* C31: under FIXED_WINDOW and SLIDING_WINDOW, for every key, a step that
\* admits a call (records its timestamp) is taken only while the key's count
\* of admitted calls within the last window_size is strictly below
\* rate * window_size, and leaves the count at most rate * window_size.
C31_AdmittedOnlyBelowWindowLimit ==
    [][ \A key \in Keys :
          (/\ rate_limiter.strategy \in { FIXED_WINDOW, SLIDING_WINDOW }
           /\ Len(rate_limiter'.request_timestamps[key]) > 0
           /\ rate_limiter'.request_timestamps[key]
                 # rate_limiter.request_timestamps[key]
           /\ rate_limiter'.request_timestamps[key]
                 [Len(rate_limiter'.request_timestamps[key])] = 0
           /\ rate_limiter'.request_count + rate_limiter'.swallowed
                 > rate_limiter.request_count + rate_limiter.swallowed)
          => /\ CountInWindow(rate_limiter, key) * Scale
                   < RateOfKey(rate_limiter, key) * rate_limiter.window_size
             /\ CountInWindow(rate_limiter', key) * Scale
                   <= RateOfKey(rate_limiter', key) * rate_limiter.window_size ]_vars

\* C32: under FIXED_WINDOW the admissions of a window are forgotten together:
\* a step that forgets an admission of a key (evicts its timestamp) forgets
\* every admission made before the step, whenever each of them happened; what is
\* left is at most the admission the step itself records.
C32_FixedWindowForgetsTogether ==
    [][ \A key \in Keys :
          LET before == rate_limiter.request_timestamps[key]
              after == rate_limiter'.request_timestamps[key]
              kept == Evict(before, rate_limiter.window_size)
          IN (/\ rate_limiter.strategy = FIXED_WINDOW
              /\ kept # before
              /\ after \in { kept, Append(kept, 0) })
             => after \in { << >>, << 0 >> } ]_vars

-----------------------------------------------------------------------------
(* A claim about a timed burst, checked under BurstSpec *)

\* C17: on a token-bucket limiter that starts with a full bucket, the time
\* needed to admit N acquire calls is at least (N - max_tokens) / rate: at any
\* moment the calls admitted so far number at most max_tokens plus the tokens
\* the rate yields in the time elapsed; in particular no more than max_tokens
\* calls are admitted with zero elapsed time.
C17_AdmissionBound ==
    rate_limiter.timed
    => (rate_limiter.request_count - rate_limiter.initial_tokens) * Scale
          <= rate_limiter.rate * rate_limiter.elapsed

-----------------------------------------------------------------------------
(* Claims about the client and the limiter it owns, checked under Spec *)

\* the limiter's observed quota, under the names the client keeps them by
ObservedQuota(rl) ==
    [ burst_limit |-> rl.burst_limit, burst_remaining |-> rl.burst_remaining,
      burst_reset |-> rl.burst_reset, limit |-> rl.global_limit,
      remaining |-> rl.global_remaining, reset |-> rl.global_reset ]

\* C15: once _make_request has received a response that carries rate-limit
\* headers, with a 2xx or an error status, the limiter's adaptive hook has been
\* applied to them: the limiter's observed quota (burst_limit, burst_remaining,
\* burst_reset, global_limit, global_remaining, global_reset) equals the values
\* of the response, which the client keeps in rate_limit_info.
C15_ObservedQuotaFollowsResponse ==
    \A t \in Callers :
        (/\ ~req[t].use_rl
         /\ req[t].transports > 0
         /\ rate_limit_info = OkHeaders)
        => ObservedQuota(rate_limiter) = rate_limit_info

\* session.request raised requests.RequestException
RequestException == Outcome("error", 0, FALSE, NoHeaders)

\* C20: a transport failure (requests.RequestException) in an attempt becomes a
\* JustCallException with status 500, a retryable status: the attempt is followed
\* by the wait for another attempt as long as the retry handler's bound allows,
\* and when it does not, the caller receives the exception with status 500.
C20_TransportFailureIs500AndRetried ==
    [][ \A t \in Callers :
           Transport(t, RequestException)
           => LET fr == req'[t] IN
              /\ fr.log[Len(fr.log)].status_code = 500
              /\ 500 \in retry_handler'.config.retry_codes
              /\ fr.pc \in { "backoff_sleep", "raised" }
              /\ fr.pc = "backoff_sleep"
                    <=> ShouldRetry(retry_handler'.config, 500, fr.retry_count)
              /\ fr.pc = "raised" => fr.delivered.status_code = 500
      ]_vars

\* every attempt failed in the transport; the caller has the last 500
C20_Witness ==
    /\ req[1].pc = "raised"
    /\ req[1].transports = 2
    /\ req[1].backoff_waits = 1
    /\ \A i \in 1..Len(req[1].log) :
           req[1].log[i].status_code = 500 /\ ~req[1].log[i].has_headers
    /\ Len(req[1].log) = 2
    /\ req[1].delivered.status_code = 500
    /\ req[1].delivered.attempt = 2

\* a successful response whose body is not valid JSON
MalformedResponse == Outcome("response", 200, FALSE, NoHeaders)

\* C21: when JSON is expected and a successful response's body is not valid
\* JSON, _make_request raises a JustCallException for it at once: the attempt
\* that met the malformed body is the last one, no wait and no further
\* transport call follow, and the caller receives that attempt's exception.
C21_MalformedResponseNotRetried ==
    [][ \A t \in Callers :
           (req[t].expect_json /\ Transport(t, MalformedResponse))
           => LET fr == req'[t] IN
              /\ fr.pc = "raised"
              /\ fr.delivered = InvalidJSON(200, fr.func_calls)
              /\ fr.transports = fr.func_calls
              /\ fr.backoff_waits = req[t].backoff_waits
              /\ sleep_left'[t] = NotSleeping
      ]_vars

\* the first attempt met a malformed body and the request was raised after
\* exactly one transport call, although the handler allows retries
C21_Witness ==
    /\ req[1].pc = "raised"
    /\ req[1].expect_json
    /\ req[1].transports = 1
    /\ req[1].func_calls = 1
    /\ req[1].log = << InvalidJSON(200, 1) >>
    /\ req[1].delivered = InvalidJSON(200, 1)
    /\ retry_handler.config.max_retries = MaxRetries

\* responses in which one rate-limit header is not an integer
MalformedReports ==
    { Headers(Malformed, 0, 1, 4, 2, Absent),
      Headers(2, Malformed, 1, 4, 2, Absent),
      Headers(2, 0, 1, Malformed, 2, Absent),
      Headers(2, 0, 1, 4, Malformed, Absent),
      Headers(2, 1, 0, 4, 3, Malformed) }

\* C39: when a rate-limit header of a response is not a valid integer,
\* update_from_headers and _update_rate_limits_from_headers swallow the error
\* and leave the limiter's and the client's quota state as it was before the
\* call: no part of the response is applied
C39_MalformedHeadersChangeNothing ==
    \A h \in MalformedReports :
        /\ UpdateFromHeaders(rate_limiter, h) = rate_limiter
        /\ UpdateRateLimitInfo(rate_limit_info, h) = rate_limit_info

-----------------------------------------------------------------------------
(* Claims about the arguments of a request, checked under ParamSpec *)

RECURSIVE Normalized(_)
\* no bool, date or datetime is left in the value, at any depth
Normalized(value) ==
    /\ value.tag \notin { "bool", "date", "datetime" }
    /\ \A i \in 1..Len(value.items) : Normalized(value.items[i])

\* C22: for every request passed to _make_request both the query parameters
\* and the JSON body are normalized before transmission: at every depth of
\* dicts and lists no bool, date or datetime reaches session.request.
C22_NothingRawReachesTransport ==
    sent.pc = "transmitted"
    => Normalized(sent.wire_params) /\ Normalized(sent.wire_json)

-----------------------------------------------------------------------------
(* A claim about the 429-then-200 scenario, checked under ScenarioSpec *)

\* C23: when attempt 1 is answered with 429, burst-remaining 0 and burst-reset 5,
\* and attempt 2 with 200, the request succeeds after exactly 2 attempts, and
\* the time between the first failure and the second transport call is at
\* least 5 seconds times the buffer factor.
C23_SecondAttemptAfterResetWindow ==
    \A t \in Callers :
        req[t].pc \in { "returned", "raised" }
        => /\ req[t].pc = "returned"
           /\ req[t].transports = 2
           /\ (req[t].at[2] - req[t].at[1]) * BufferDen
                 >= 5 * TicksPerSecond * BufferNum

\* C27: the wait that begins before the k-th retry (k >= 1) is
\* min(retry_delay * backoff_factor^(k-1), MAX_BACKOFF_TIME), to the tick, under
\* the configuration in force then, be it the constructor's, one installed by
\* update_config or the one installed after a 429; it never exceeds
\* MAX_BACKOFF_TIME; and no wait precedes the first attempt: an attempt in
\* progress has been preceded by one wait less than there were attempts.
C27_BackoffIsCappedExponential ==
    /\ [][ \A t \in Callers :
              (req[t].pc # "backoff_sleep" /\ req'[t].pc = "backoff_sleep")
              => LET k == req'[t].retry_count
                     config == retry_handler'.config
                     unit == Pow(10, k - 1)
                     exact == config.retry_delay * Pow(config.backoff_factor, k - 1)
                     wait == sleep_left'[t]
                 IN /\ k >= 1
                    /\ wait <= MAX_BACKOFF_TIME
                    /\ IF exact >= MAX_BACKOFF_TIME * unit
                       THEN wait = MAX_BACKOFF_TIME
                       ELSE wait * unit >= exact /\ (wait - 1) * unit < exact ]_vars
    /\ [](\A t \in Callers :
             /\ req[t].pc = "acquire" => req[t].backoff_waits = req[t].func_calls - 1
             /\ req[t].pc = "backoff_sleep" => sleep_left[t] <= MAX_BACKOFF_TIME)

\* the wait before a second retry has begun at the ceiling, under a configuration
\* installed after a 429: its retry_delay alone is above the ceiling
C27_Witness ==
    \E t \in Callers :
        /\ req[t].pc = "backoff_sleep"
        /\ req[t].retry_count = 2
        /\ retry_handler.config.backoff_factor = 20
        /\ retry_handler.config.retry_delay > MAX_BACKOFF_TIME
        /\ sleep_left[t] = MAX_BACKOFF_TIME

\* C25: in the client's request path (_make_request), whenever the backoff wait
\* before the next attempt has begun after a retryable failure that carried
\* rate-limit headers, update_from_headers has been applied to those headers:
\* the limiter's observed quota holds every value the headers reported.
C25_HeadersFedBeforeBackoff ==
    \A t \in Callers :
        (/\ ~req[t].use_rl
         /\ req[t].pc = "backoff_sleep"
         /\ req[t].last_exception.has_headers
         /\ req[t].last_exception.headers # NoHeaders)
        => LET h == req[t].last_exception.headers IN
           \A k \in DOMAIN h :
               h[k] # Absent => ObservedQuota(rate_limiter)[k] = h[k]

-----------------------------------------------------------------------------
(* Two clients *)

\* C24: a step of one client (its requests, the rate-limit responses it gets,
\* the adjustments they cause) leaves the other client's limiter (tokens, rate,
\* max_tokens, observed quota and the rest of its state) and the other client's
\* retry handler as they were: a step of the second client changes neither
\* rate_limiter nor retry_handler, and a step of the first changes neither the
\* limiter nor the handler the second client refers to.
C24_ClientsDoNotShareState ==
    [][ IF other'.requests # other.requests
        THEN UNCHANGED << rate_limiter, retry_handler >>
        ELSE /\ TheirLimiter' = TheirLimiter
             /\ TheirHandler' = TheirHandler ]_vars

\* the second client was throttled, adjusted its limiter and its retry handler
\* and made another request; the first client has completed a request and its
\* limiter and its retry handler are as its own traffic left them
C24_Witness ==
    /\ other.rate_limiter.max_tokens = 1
    /\ other.retry_handler.config.backoff_factor = 20
    /\ other.rate_limiter.request_count = 2
    /\ rate_limiter.max_tokens = 60
    /\ retry_handler.config.backoff_factor = 15
    /\ \E t \in Callers : req[t].pc = "returned" /\ req[t].transports = 1

-----------------------------------------------------------------------------
(* Claims about the client's session, checked under ScopeSpec *)

\* _do_request has passed the session check and not yet returned or raised
InRequest(t) == req[t].pc \in { "acquire", "adjust_sleep", "backoff_sleep" }

\* C18: after __exit__ the session the client referred to has been closed and
\* client.session is None; a later _make_request creates a new session: it
\* runs on an open session, never on a closed one.
C18_ExitClosesAndRequestReopens ==
    /\ [][ \A t \in Callers :
              Exit(t) => /\ session'.ref = NoObject
                         /\ session.ref # NoObject => session.ref \in session'.closed
                         /\ OpenSessions(session') = OpenSessions(session) \ { session.ref }
          ]_vars
    /\ [](\A t \in Callers :
              InRequest(t) => session.ref \in OpenSessions(session))

\* the scope was entered and left, then a request made a session and returned
C18_Witness ==
    /\ session.closed = { 1 }
    /\ session.ref = 2
    /\ session.lazy = { 2 }
    /\ req[1].pc = "returned"
    /\ req[1].result = "body"

\* C19: the client has at most one open session at any time, whatever the order
\* of __enter__, lazy creation in _make_request and __exit__.
C19_AtMostOneOpenSession ==
    Cardinality(OpenSessions(session)) <= 1

-----------------------------------------------------------------------------
(* C10: every call to RateLimiter.acquire eventually returns, under each   *)
(* of the three strategies, for every configuration with rate > 0 and      *)
(* window_size > 0 and after any sequence of adaptive rate reductions:     *)
(* a thread that has entered acquire (it holds the lock) leaves it again.  *)
C10_AcquireReturns ==
    \A t \in Threads : (lock = t) ~> (lock # t)

\* the same, for the two strategies whose wait loops can end
C10_AcquireReturnsUnlessFixedWindow ==
    \A t \in Threads :
        (lock = t /\ rate_limiter.strategy # FIXED_WINDOW) ~> (lock # t)

=============================================================================
